---------------------------- MODULE Spec2Model ----------------------------
(***************************************************************************)
(* Space-Launch-Telemetry-Analyzer: the per-frame extraction dispatcher    *)
(* (ocr/extract_data.py), the ROI activation window (config_gui            *)
(* VideoWidget.is_active), the measurement converter, the cleaning         *)
(* passes of plot/ (vehicle detection, engine aggregation, fuel columns,   *)
(* fuel reconciliation, outlier rejection, the whole load_and_clean_data), *)
(* the ROI configuration with its editor (config_gui) and the downloads    *)
(* (download/).                                                            *)
(*                                                                         *)
(* The specifications share the variables; each pins the variables of the  *)
(* other parts to an idle value:                                           *)
(*   Spec         one extract_data call, one loop iteration per step       *)
(*   SpecActive   VideoWidget.is_active applied to bounded inputs          *)
(*   SpecOutlier  clean_dataframe applied to bounded tables                *)
(*   SpecFuel     normalize_fuel_levels applied to bounded tables          *)
(*   SpecDetect   detect_vehicles applied to bounded column sets           *)
(*   SpecEngine   process_engine_data applied to bounded tables            *)
(*   SpecPrepare  prepare_fuel_data_columns applied to bounded tables      *)
(*   SpecPipeline load_and_clean_data, one pass per step                   *)
(*   SpecConfig   an ROIConfig created, opened, edited and saved           *)
(*   SpecGeometry the geometry of the ROIs under the editor's handlers     *)
(*   SpecCalls    extract_data called for one frame after another          *)
(*   SpecFuelTwice normalize_fuel_levels applied, and applied again        *)
(*   SpecLoad     ROIConfig.load_config applied to bounded files            *)
(*   SpecConvert  convert_measurement applied to bounded inputs             *)
(*   SpecDownload the two download functions called one after another       *)
(*   SpecListing  get_downloaded_launches applied to bounded listings       *)
(*   SpecLaunch   get_launch_data applied to bounded configs directories    *)
(*   SpecMenu     flights selected and downloaded through the menu          *)
(*                                                                         *)
(* Python values: a dict is a function (the empty dict is the function     *)
(* with the empty domain), a numeric None / NaN is NULL, a float is a      *)
(* fixed-point integer where a fraction matters.                           *)
(***************************************************************************)
EXTENDS Integers, Sequences, FiniteSets, TLC

VARIABLES
    \* ---- extract_data (src/ocr/extract_data.py) ----
    vehicles,        \* mgr.vehicles, the manager's vehicle list
    zero_time_met,   \* the caller's zero-time latch, an argument
    pc,              \* "start" | "loop" | "done" | "raised"
    idx,             \* number of active ROIs the loop has consumed
    roi,             \* the loop variable: the ROI of the last iteration
    value,           \* data.get("value") of this iteration's OCR, NULL if none
    vehicles_data,   \* the dict under construction
    time_data,       \* the time dict under construction
    fuel_extracted,  \* the local fuel_extracted flag
    calls,           \* how often each external collaborator was invoked
    exc,             \* what propagated out of extract_data, "none" if nothing
    time_roi,        \* history: was a time ROI active / sliced non-empty
    \* ---- VideoWidget.is_active ----
    act,
    \* ---- cleaning passes ----
    df,              \* the table: column name -> sequence of cells
    df_in,           \* history: the table the pass was given
    stage,           \* "idle" | "loaded" | the pass that ran last
    vehicle_list,    \* what detect_vehicles returned to the caller
    \* ---- ROI configuration (src/config_gui) ----
    config,          \* the ROIConfig object of the editor
    disk,            \* the configuration file: its content, or NoFile
    saved,           \* history: save_config wrote the file in this step
    \* ---- measurement converter, download/ ----
    conv,            \* one convert_measurement call: arguments and outcome
    dl,              \* one download_* call: position and outcome
    recordings,      \* the flight_recordings directory
    downloaded,      \* one get_downloaded_launches call and its list
    configs,         \* the configs directory
    flight_data,     \* one get_launch_data call and what it returned
    menu             \* the launch-list menu: its position and selection

vars == <<vehicles, zero_time_met, pc, idx, roi, value, vehicles_data,
          time_data, fuel_extracted, calls, exc, time_roi, act, df, df_in,
          stage, vehicle_list, config, disk, saved, conv, dl, recordings,
          downloaded, configs, flight_data, menu>>

extractVars == <<vehicles, zero_time_met, pc, idx, roi, value, vehicles_data,
                 time_data, fuel_extracted, calls, exc, time_roi>>
cleanVars == <<df, df_in, stage, vehicle_list>>
configVars == <<config, disk, saved>>
utilVars == <<conv, dl, recordings, downloaded, configs, flight_data, menu>>

--------------------------------------------------------------------------
(* Bounds of the model *)

MaxActiveRois == 2      \* longest list get_active_rois returns
ImgH == 4               \* frame height, image.shape[0]
ImgW == 4               \* frame width, image.shape[1]

--------------------------------------------------------------------------
(* Python values *)

\* None / NaN in a numeric position
NULL == -1
\* None as a vehicle name (roi.vehicle of a global ROI)
NoVehicle == "None"
\* the empty dict {} ; also the None that slice_roi returns
EmptyDict == [k \in {} |-> 0]

Max(a, b) == IF a >= b THEN a ELSE b
Min(a, b) == IF a <= b THEN a ELSE b
Abs(a) == IF a < 0 THEN 0 - a ELSE a

--------------------------------------------------------------------------
(* utils/measurement_converter.py                                         *)
(* A measurement is a fixed-point number: ConvScale ticks to the unit, so *)
(* that the factors 1.60934 and 0.0003048 are whole numbers of ticks.     *)

ConvScale == 10000000
MileFactor == 16093400      \* 1.60934
FootFactor == 3048          \* 0.0003048

\* value * factor, for a value in ticks and a factor in ticks, rounded
\* down to a tick; the fraction of the value is multiplied in two halves of
\* four digits so that no product leaves 32 bits
MulFixed(v, f) ==
    LET r == v % ConvScale
        r1 == r \div 10000
        r0 == r % 10000
        f1 == f \div 10000
        f0 == f % 10000
        m == r1 * f0 + r0 * f1
    IN  (v \div ConvScale) * f + r1 * f1 * 10 + m \div 1000
        + ((m % 1000) * 10000 + r0 * f0) \div ConvScale

\* a raised ValueError
Unsupported == -2

convert_speed(v, from_unit) ==
    IF from_unit = "km/h" THEN v
    ELSE IF from_unit = "mph" THEN MulFixed(v, MileFactor)
    ELSE Unsupported

convert_altitude_FeetAsMiles(v, from_unit) ==
    IF from_unit = "km" THEN v
    ELSE IF from_unit \in {"mi", "ft"} THEN MulFixed(v, MileFactor)
    ELSE Unsupported

convert_altitude(v, from_unit) ==
    IF from_unit = "km" THEN v
    ELSE IF from_unit = "mi" THEN MulFixed(v, MileFactor)
    ELSE IF from_unit = "ft" THEN MulFixed(v, FootFactor)
    ELSE Unsupported

convert_measurement(v, measurement_type, from_unit) ==
    IF measurement_type = "speed" THEN convert_speed(v, from_unit)
    ELSE IF measurement_type = "altitude" THEN convert_altitude(v, from_unit)
    ELSE Unsupported

--------------------------------------------------------------------------
(* ocr/extract_data.py: slice_roi                                         *)

\* the clamped region [y0:y1, x0:x1] of an ih x iw image, EmptyDict for None
slice_roi(ih, iw, y, h, x, w) ==
    LET y0 == Max(0, y)
        x0 == Max(0, x)
        y1 == Min(ih, y + h)
        x1 == Min(iw, x + w)
    IN  IF y0 >= y1 \/ x0 >= x1
        THEN EmptyDict
        ELSE [y0 |-> y0, y1 |-> y1, x0 |-> x0, x1 |-> x1]

--------------------------------------------------------------------------
(* The inputs of one extract_data call                                    *)

VehicleNames == {"starship", "superheavy"}

\* mgr.vehicles: the declared vehicle list of the loaded configuration
VehicleLists == {{}, {"starship"}, VehicleNames}

\* rectangles (x, y, w, h): all zero, as the editor writes for an engines
\* ROI, and one that overhangs the frame and is clamped to its corner
Rects ==
    { [x |-> 0, y |-> 0, w |-> 0, h |-> 0],
      [x |-> ImgW - 1, y |-> ImgH - 1, w |-> 3, h |-> 3] }

\* roi.points: no point-group, or one group of one point
NoPoints == EmptyDict
PointGroups == { NoPoints, [g \in {"rvac"} |-> <<(<<1, 1>>)>>] }

SpeedUnits == {"km/h", "mph", "m/s"}
AltitudeUnits == {"km", "ft", "m"}
TimePattern == "[+-]\\d{2}:\\d{2}:\\d{2}"

MakeRoi(id, vehicle, rect, unit, points) ==
    [id |-> id, vehicle |-> vehicle, x |-> rect.x, y |-> rect.y,
     w |-> rect.w, h |-> rect.h, measurement_unit |-> unit,
     points |-> points]

\* The ROIs get_active_rois may hand to the loop, for a vehicle list vs.
\* An ROI's vehicle is None or one of the declared vehicles (section 3 of
\* the specification: the loaded configuration keeps that invariant).
RoiInputs(vs) ==
    LET owners == vs \cup {NoVehicle}
    IN  { MakeRoi("time", NoVehicle, r, TimePattern, NoPoints) : r \in Rects }
        \cup { MakeRoi("speed", v, r, u, NoPoints) :
                 v \in owners, r \in Rects, u \in SpeedUnits }
        \cup { MakeRoi("altitude", v, r, u, NoPoints) :
                 v \in owners, r \in Rects, u \in AltitudeUnits }
        \cup { MakeRoi("engines", v, r, "", p) :
                 v \in owners, r \in Rects, p \in PointGroups }
        \cup { MakeRoi("fuel", v, r, "", NoPoints) :
                 v \in owners, r \in Rects }
        \cup { MakeRoi("custom", v, r, "", NoPoints) :
                 v \in owners, r \in Rects }

\* the loop variable before the first iteration
NoRoi == MakeRoi("", NoVehicle, [x |-> 0, y |-> 0, w |-> 0, h |-> 0], "", NoPoints)

--------------------------------------------------------------------------
(* The external collaborators: every outcome they can produce             *)

ZeroTime == [sign |-> "+", hours |-> 0, minutes |-> 0, seconds |-> 0]

\* extract_values_from_roi(mode="time"): a raised exception, {} or a time
TimeOcrOutcomes ==
    { [raised |-> TRUE, data |-> EmptyDict],
      [raised |-> FALSE, data |-> EmptyDict],
      [raised |-> FALSE,
       data |-> [sign |-> "-", hours |-> 0, minutes |-> 0, seconds |-> 10]] }

\* extract_values_from_roi(mode="speed"|"altitude"): data.get("value")
OcrValues == {NULL, 100 * ConvScale}
ValueOcrOutcomes ==
    { [raised |-> TRUE, value |-> NULL] }
    \cup { [raised |-> FALSE, value |-> v] : v \in OcrValues }

\* detect_engine_status(points, image): one boolean per point of each group
EngineOutcomes(points) ==
    { [raised |-> TRUE, engines |-> EmptyDict] }
    \cup { [raised |-> FALSE,
            engines |-> [g \in DOMAIN points |-> [k \in 1..Len(points[g]) |-> b]]] :
           b \in BOOLEAN }

\* extract_fuel_levels(image): vehicle -> fuel record, for any vehicles
DefaultFuel == [lox |-> [fullness |-> 0], ch4 |-> [fullness |-> 0]]
ReadFuel == [lox |-> [fullness |-> 80], ch4 |-> [fullness |-> 40]]
FuelOutcomes ==
    { [raised |-> TRUE, fuel_data |-> EmptyDict] }
    \cup { [raised |-> FALSE, fuel_data |-> [v \in known |-> ReadFuel]] :
           known \in SUBSET VehicleNames }

\* dict.get(key, default)
Get(d, key, default) == IF key \in DOMAIN d THEN d[key] ELSE default

--------------------------------------------------------------------------
(* ocr/extract_data.py: extract_time_data and extract_data                *)

\* the zero-value record of one vehicle (line 151)
DefaultVehicle ==
    [speed |-> NULL, altitude |-> NULL, fuel |-> DefaultFuel,
     engines |-> EmptyDict]

\* mutant: the default speed is 0 instead of None
InitVehiclesData_ZeroSpeed(vs) ==
    [v \in vs |-> [DefaultVehicle EXCEPT !.speed = 0]]

\* lines 150-151: one default record per vehicle of mgr.vehicles
InitVehiclesData(vs) == [v \in vs |-> DefaultVehicle]

\* extract_time_data: does it reach extract_values_from_roi (line 118)
TimeOcrInvoked(zero) == ~zero

\* mutant: the latch is not consulted
extract_time_data_NoLatch(zero, outcome) ==
    IF outcome.raised THEN EmptyDict ELSE outcome.data

\* extract_time_data: the dict it returns, given the OCR's outcome
extract_time_data(zero, outcome) ==
    IF zero THEN ZeroTime
    ELSE IF outcome.raised THEN EmptyDict
    ELSE outcome.data

\* mutant: the conversion is left out
NeedsConversion_Never(v, unit, canonical) == FALSE

\* lines 169 and 175: is convert_measurement called
NeedsConversion(v, unit, canonical) == v # NULL /\ unit # canonical

\* line 182: is extract_fuel_levels called for a fuel ROI
FuelDue(extracted) == ~extracted

\* lines 186-187: the detector's result broadcast to every vehicle
BroadcastFuel(data, vs, fuel_data) ==
    [v \in vs |-> [data[v] EXCEPT !.fuel = Get(fuel_data, v, DefaultFuel)]]

SliceOf(r) == slice_roi(ImgH, ImgW, r.y, r.h, r.x, r.w)
Truthy(vehicle) == vehicle # NoVehicle /\ vehicle # ""
Count(c, name) == [c EXCEPT ![name] = @ + 1]

NoCalls == [time_ocr |-> 0, value_ocr |-> 0, engines |-> 0, fuel |-> 0,
            convert |-> 0]

\* the state before the call, for every argument
ExtractInit ==
    /\ vehicles \in VehicleLists
    /\ zero_time_met \in BOOLEAN
    /\ pc = "start"
    /\ idx = 0
    /\ roi = NoRoi
    /\ value = NULL
    /\ vehicles_data = EmptyDict
    /\ time_data = EmptyDict
    /\ fuel_extracted = FALSE
    /\ calls = NoCalls
    /\ exc = "none"
    /\ time_roi = [active |-> FALSE, sliced |-> FALSE]

ExtractIdle ==
    /\ vehicles = {}
    /\ zero_time_met = FALSE
    /\ pc = "idle"
    /\ idx = 0
    /\ roi = NoRoi
    /\ value = NULL
    /\ vehicles_data = EmptyDict
    /\ time_data = EmptyDict
    /\ fuel_extracted = FALSE
    /\ calls = NoCalls
    /\ exc = "none"
    /\ time_roi = [active |-> FALSE, sliced |-> FALSE]

ExtractStart_KeepsFuelFlag ==
    /\ pc = "start"
    /\ pc' = "loop"
    /\ vehicles_data' = InitVehiclesData(vehicles)
    /\ time_data' = EmptyDict
    /\ UNCHANGED <<vehicles, zero_time_met, idx, roi, value, calls, exc,
                   time_roi, act, cleanVars, configVars, utilVars,
                   fuel_extracted>>

\* lines 145-155: the dicts are initialised, the active ROIs are fetched
ExtractStart ==
    /\ pc = "start"
    /\ pc' = "loop"
    /\ vehicles_data' = InitVehiclesData(vehicles)
    /\ time_data' = EmptyDict
    /\ fuel_extracted' = FALSE
    /\ UNCHANGED <<vehicles, zero_time_met, idx, roi, value, calls, exc,
                   time_roi, act, cleanVars, configVars, utilVars>>

\* what every loop iteration does: the next active ROI becomes roi
Iterate(r) ==
    /\ pc = "loop"
    /\ idx < MaxActiveRois
    /\ idx' = idx + 1
    /\ roi' = r
    /\ time_roi' = [active |-> time_roi.active \/ r.id = "time",
                    sliced |-> time_roi.sliced
                               \/ (r.id = "time" /\ SliceOf(r) # EmptyDict)]
    /\ UNCHANGED <<vehicles, zero_time_met, act, cleanVars, configVars, utilVars>>

\* lines 158-160: the clamped region is empty, continue
SkipRoi(r) ==
    /\ Iterate(r)
    /\ SliceOf(r) = EmptyDict
    /\ value' = NULL
    /\ UNCHANGED <<pc, vehicles_data, time_data, fuel_extracted, calls, exc>>

\* lines 162-163: a time ROI
TimeRoi(r) ==
    /\ Iterate(r)
    /\ SliceOf(r) # EmptyDict
    /\ r.id = "time"
    /\ \E outcome \in TimeOcrOutcomes :
         /\ time_data' = extract_time_data(zero_time_met, outcome)
         /\ calls' = IF TimeOcrInvoked(zero_time_met)
                     THEN Count(calls, "time_ocr") ELSE calls
    /\ value' = NULL
    /\ UNCHANGED <<pc, vehicles_data, fuel_extracted, exc>>

\* lines 166-171 (mode "speed", canonical "km/h") and 172-177 ("altitude",
\* "km"): the OCR is not guarded, nor is the conversion
ValueRoi(r, mode, canonical) ==
    /\ Iterate(r)
    /\ SliceOf(r) # EmptyDict
    /\ r.id = mode
    /\ Truthy(r.vehicle)
    /\ \E outcome \in ValueOcrOutcomes :
         LET v == outcome.value
             convert == NeedsConversion(v, r.measurement_unit, canonical)
             stored == IF convert
                       THEN convert_measurement(v, mode, r.measurement_unit)
                       ELSE v
         IN  /\ value' = v
             /\ calls' = IF outcome.raised \/ ~convert
                         THEN Count(calls, "value_ocr")
                         ELSE Count(Count(calls, "value_ocr"), "convert")
             /\ IF outcome.raised
                THEN /\ pc' = "raised"
                     /\ exc' = "decoder"
                     /\ UNCHANGED vehicles_data
                ELSE IF stored = Unsupported
                THEN /\ pc' = "raised"
                     /\ exc' = "ValueError"
                     /\ UNCHANGED vehicles_data
                ELSE /\ vehicles_data' =
                          [vehicles_data EXCEPT ![r.vehicle][mode] = stored]
                     /\ UNCHANGED <<pc, exc>>
    /\ UNCHANGED <<time_data, fuel_extracted>>

SpeedRoi(r) == ValueRoi(r, "speed", "km/h")
AltitudeRoi(r) == ValueRoi(r, "altitude", "km")

\* lines 178-181: an engines ROI; the detector is not guarded
EnginesRoi(r) ==
    /\ Iterate(r)
    /\ SliceOf(r) # EmptyDict
    /\ r.id = "engines"
    /\ Truthy(r.vehicle)
    /\ IF r.points = NoPoints
       THEN /\ vehicles_data' =
                 [vehicles_data EXCEPT ![r.vehicle].engines = EmptyDict]
            /\ UNCHANGED <<pc, exc, calls>>
       ELSE \E outcome \in EngineOutcomes(r.points) :
              /\ calls' = Count(calls, "engines")
              /\ IF outcome.raised
                 THEN /\ pc' = "raised"
                      /\ exc' = "decoder"
                      /\ UNCHANGED vehicles_data
                 ELSE /\ vehicles_data' =
                           [vehicles_data EXCEPT
                              ![r.vehicle].engines = outcome.engines]
                      /\ UNCHANGED <<pc, exc>>
    /\ value' = NULL
    /\ UNCHANGED <<time_data, fuel_extracted>>

\* lines 182-193: a fuel ROI while fuel_extracted is false; the flag is set
\* inside the try, after the detector returned
FuelRoi(r) ==
    /\ Iterate(r)
    /\ SliceOf(r) # EmptyDict
    /\ r.id = "fuel"
    /\ Truthy(r.vehicle)
    /\ FuelDue(fuel_extracted)
    /\ \E outcome \in FuelOutcomes :
         /\ calls' = Count(calls, "fuel")
         /\ IF outcome.raised
            THEN UNCHANGED <<vehicles_data, fuel_extracted>>
            ELSE /\ vehicles_data' =
                      BroadcastFuel(vehicles_data, vehicles, outcome.fuel_data)
                 /\ fuel_extracted' = TRUE
    /\ value' = NULL
    /\ UNCHANGED <<pc, time_data, exc>>

IgnoredRoi_ResetsTime(r) ==
    /\ Iterate(r)
    /\ SliceOf(r) # EmptyDict
    /\ r.id \notin {"time", "speed", "altitude", "engines", "fuel"}
    /\ value' = NULL
    /\ time_data' = EmptyDict
    /\ UNCHANGED <<pc, vehicles_data, fuel_extracted, calls, exc>>

\* no branch of lines 162-182 applies: no owning vehicle, an id that is
\* none of the five, or a fuel ROI after the fuel was extracted
IgnoredRoi(r) ==
    /\ Iterate(r)
    /\ SliceOf(r) # EmptyDict
    /\ r.id # "time"
    /\ \/ ~Truthy(r.vehicle)
       \/ r.id \notin {"speed", "altitude", "engines", "fuel"}
       \/ (r.id = "fuel" /\ ~FuelDue(fuel_extracted))
    /\ value' = NULL
    /\ UNCHANGED <<pc, vehicles_data, time_data, fuel_extracted, calls, exc>>

\* line 210: the list is exhausted, the record is returned
Return ==
    /\ pc = "loop"
    /\ pc' = "done"
    /\ UNCHANGED <<vehicles, zero_time_met, idx, roi, value, vehicles_data,
                   time_data, fuel_extracted, calls, exc, time_roi, act,
                   cleanVars, configVars, utilVars>>

\* the record extract_data returns
Record == [vehicles |-> vehicles_data, time |-> time_data]

--------------------------------------------------------------------------
(* Idle values of the parts a specification does not exercise             *)

NoAct == [phase |-> "idle"]
ActiveIdle == act = NoAct
CleanIdle ==
    /\ df = EmptyDict
    /\ df_in = EmptyDict
    /\ stage = "idle"
    /\ vehicle_list = {}
NoConfig == [config_path |-> "", version |-> 0, vehicles |-> {}, rois |-> <<>>]
NoFile == [exists |-> FALSE]
ConfigIdle == config = NoConfig /\ disk = NoFile /\ saved = FALSE
NoCall == [pc |-> "idle"]
NoDir == [exists |-> FALSE, files |-> <<>>]
UtilIdle ==
    /\ conv = NoCall
    /\ dl = NoCall
    /\ recordings = NoDir
    /\ downloaded = NoCall
    /\ configs = NoDir
    /\ flight_data = NoCall
    /\ menu = NoCall

--------------------------------------------------------------------------
(* Spec: one extract_data call                                            *)

Init == ExtractInit /\ ActiveIdle /\ CleanIdle /\ ConfigIdle /\ UtilIdle

Next ==
    \/ ExtractStart
    \/ \E r \in RoiInputs(vehicles) : SkipRoi(r)
    \/ \E r \in RoiInputs(vehicles) : TimeRoi(r)
    \/ \E r \in RoiInputs(vehicles) : SpeedRoi(r)
    \/ \E r \in RoiInputs(vehicles) : AltitudeRoi(r)
    \/ \E r \in RoiInputs(vehicles) : EnginesRoi(r)
    \/ \E r \in RoiInputs(vehicles) : FuelRoi(r)
    \/ \E r \in RoiInputs(vehicles) : IgnoredRoi(r)
    \/ Return

Spec == Init /\ [][Next]_vars

--------------------------------------------------------------------------
(* Claims about extract_data, checked under Spec                          *)

\* the iteration just taken processed an ROI of this id that has an owning
\* vehicle (an action-level predicate: roi' is the ROI of that iteration)
Processed(id) ==
    /\ pc = "loop"
    /\ idx' = idx + 1
    /\ roi'.id = id
    /\ Truthy(roi'.vehicle)

\* C1: in one extract_data call the fuel-level detector is invoked at most
\* once, however many fuel ROIs are active and whatever the detector does
\* (also when its first invocation raises).
C1_FuelDetectorAtMostOnce == calls.fuel <= 1

\* C2: a decoder that raises for one active ROI never aborts extract_data:
\* no decoder exception propagates out of the call.
C2_DecoderFailureNeverAborts == ~(pc = "raised" /\ exc = "decoder")

\* C3: the returned record has a key for every vehicle of mgr.vehicles (and
\* no other key), and when no ROI was active every vehicle holds the
\* defaults: speed null, altitude null, lox and ch4 fullness 0, no engines.
C3_RecordHasEveryVehicle ==
    pc = "done" =>
        /\ DOMAIN Record.vehicles = vehicles
        /\ idx = 0 =>
             \A v \in vehicles :
                /\ Record.vehicles[v].speed = NULL
                /\ Record.vehicles[v].altitude = NULL
                /\ Record.vehicles[v].fuel.lox.fullness = 0
                /\ Record.vehicles[v].fuel.ch4.fullness = 0
                /\ DOMAIN Record.vehicles[v].engines = {}

\* C3 witness: a call for two vehicles returned with no ROI active.
C3_Witness == pc = "done" /\ idx = 0 /\ vehicles = VehicleNames

\* C8: every active engines ROI with an owning vehicle and non-empty
\* point-groups, its rectangle all zero or not, has the engine-status
\* detector invoked and, unless the detector raised, the detector's groups
\* stored under the vehicle's engines field.
C8_EnginesRoiInvokesDetector ==
    [][ (Processed("engines") /\ roi'.points # NoPoints) =>
          /\ calls'.engines = calls.engines + 1
          /\ pc' = "loop" =>
               DOMAIN vehicles_data'[roi'.vehicle].engines = DOMAIN roi'.points
      ]_vars

\* C9 as stated: with the latch set and a time ROI active, the returned time
\* is the zero timestamp and the time OCR was not invoked.
C9_LatchedTimeIsZero_Original ==
    (pc = "done" /\ zero_time_met /\ time_roi.active) =>
        (Record.time = ZeroTime /\ calls.time_ocr = 0)

\* C9 amended: with the latch set and an active time ROI whose clamped
\* rectangle is not empty, the returned time is exactly
\* {sign "+", hours 0, minutes 0, seconds 0} and the time OCR was not
\* invoked in the call.
C9_LatchedTimeIsZero ==
    (pc = "done" /\ zero_time_met /\ time_roi.sliced) =>
        /\ Record.time = [sign |-> "+", hours |-> 0, minutes |-> 0, seconds |-> 0]
        /\ calls.time_ocr = 0

\* C9 witness: a latched call returned after slicing a time ROI.
C9_Witness == pc = "done" /\ zero_time_met /\ time_roi.sliced

\* C10: for a speed (altitude) ROI with an owning vehicle whose OCR ran and
\* whose iteration completed, the value stored under the vehicle is the OCR
\* value unchanged when the unit is km/h (km), the converted value when the
\* unit differs (100 mph is 160.934 km/h, 100 ft is 0.03048 km), and null
\* with no conversion attempted when the OCR returned no value.
C10_StoredMeasurement ==
    [][ \A mode \in {"speed", "altitude"} :
          (Processed(mode) /\ SliceOf(roi') # EmptyDict /\ pc' = "loop") =>
             LET canonical == IF mode = "speed" THEN "km/h" ELSE "km"
                 unit == roi'.measurement_unit
                 stored == vehicles_data'[roi'.vehicle][mode]
                 conversions == calls'.convert - calls.convert
             IN  /\ value' = NULL => (stored = NULL /\ conversions = 0)
                 /\ (value' # NULL /\ unit = canonical) =>
                        (stored = value' /\ conversions = 0)
                 /\ (value' # NULL /\ unit # canonical) => conversions = 1
                 /\ (value' = 100 * ConvScale /\ unit = "mph") =>
                        stored = 1609340000
                 /\ (value' = 100 * ConvScale /\ unit = "ft") =>
                        stored = 304800
      ]_vars

\* C10 witness: a speed ROI in mph read 100 and 160.934 km/h was stored.
C10_Witness ==
    /\ pc = "loop"
    /\ roi.id = "speed"
    /\ roi.measurement_unit = "mph"
    /\ Truthy(roi.vehicle)
    /\ value = 100 * ConvScale
    /\ vehicles_data[roi.vehicle].speed = 1609340000

\* C27: an active ROI whose id is none of time, speed, altitude, engines,
\* fuel invokes no decoder and leaves the frame record unchanged: the
\* iteration for it changes neither the record under construction nor
\* anything a later iteration reads, so the record equals the one produced
\* without that ROI.
C27_UnknownIdIgnored ==
    [][ (/\ pc = "loop"
         /\ idx' = idx + 1
         /\ roi'.id \notin {"time", "speed", "altitude", "engines", "fuel"})
        => /\ calls' = calls
           /\ vehicles_data' = vehicles_data
           /\ time_data' = time_data
           /\ fuel_extracted' = fuel_extracted
           /\ pc' = pc
           /\ exc' = exc ]_vars

\* the second ROI of a call had an unknown id, an owning vehicle and a
\* non-empty region, and the time the first ROI gave is still in the record
C27_Witness ==
    /\ pc = "loop"
    /\ idx = 2
    /\ roi.id = "custom"
    /\ Truthy(roi.vehicle)
    /\ SliceOf(roi) # EmptyDict
    /\ time_data # EmptyDict

--------------------------------------------------------------------------
(* SpecCalls: extract_data called for one frame after another             *)

\* the caller's loop calls extract_data for the next frame with the same
\* manager and its own latch; what the finished call left in value,
\* vehicles_data, time_data and fuel_extracted stays until the new call
\* assigns it
CallAgain ==
    /\ pc \in {"done", "raised"}
    /\ pc' = "start"
    /\ zero_time_met' \in BOOLEAN
    /\ idx' = 0
    /\ roi' = NoRoi
    /\ calls' = NoCalls
    /\ exc' = "none"
    /\ time_roi' = [active |-> FALSE, sliced |-> FALSE]
    /\ UNCHANGED <<vehicles, value, vehicles_data, time_data, fuel_extracted,
                   act, cleanVars, configVars, utilVars>>

NextCalls == Next \/ CallAgain

SpecCalls == Init /\ [][NextCalls]_vars

--------------------------------------------------------------------------
(* config_gui/video_widget.py: VideoWidget.is_active                      *)
(* (config_gui/widgets.py holds the same method, line for line)           *)
(*                                                                         *)
(* A bound (start_time, end_time) is a number of TimeDen-ths: frames when  *)
(* time_unit is "frames", seconds otherwise; NULL is None. fps is whole.   *)

TimeDen == 4            \* a bound is a multiple of 1/TimeDen
MaxBound == 8           \* largest bound, in TimeDen-ths
MaxFrameIdx == 22       \* largest frame index asked about

FpsValues == {10, 30}
TimeUnits == {"frames", "seconds", "s", "ms"}
BoundValues == {NULL} \cup 0..MaxBound

\* Python int(): truncation toward zero of n / d
IntTrunc(n, d) == IF n >= 0 THEN n \div d ELSE 0 - ((0 - n) \div d)

\* Python round(): n / d rounded to the nearest integer, a half to the even
PyRound(n, d) ==
    LET q == n \div d
        r == n % d
    IN  IF 2 * r < d THEN q
        ELSE IF 2 * r > d THEN q + 1
        ELSE IF q % 2 = 0 THEN q ELSE q + 1

\* mutant: the bound is rounded
SecondsToFrame_Round(bound, fps) == PyRound(bound * fps, TimeDen) * TimeDen

\* lines 73-74: int(bound * self.fps), as a number of TimeDen-ths
SecondsToFrame(bound, fps) == IntTrunc(bound * fps, TimeDen) * TimeDen

\* lines 69-77: the bound as a frame index
ToFrame(bound, time_unit, fps) ==
    IF time_unit = "frames" THEN bound
    ELSE IF time_unit \in {"seconds", "s"}
    THEN (IF bound = NULL THEN NULL ELSE SecondsToFrame(bound, fps))
    ELSE bound

\* mutant: the upper bound is exclusive
Within_ExclusiveEnd(s, e, frame_idx) ==
    IF s = NULL /\ e = NULL THEN TRUE
    ELSE IF s = NULL THEN frame_idx * TimeDen < e
    ELSE IF e = NULL THEN frame_idx * TimeDen >= s
    ELSE s <= frame_idx * TimeDen /\ frame_idx * TimeDen < e

\* lines 78-84: the comparison
Within(s, e, frame_idx) ==
    IF s = NULL /\ e = NULL THEN TRUE
    ELSE IF s = NULL THEN frame_idx * TimeDen <= e
    ELSE IF e = NULL THEN frame_idx * TimeDen >= s
    ELSE s <= frame_idx * TimeDen /\ frame_idx * TimeDen <= e

is_active(time_unit, fps, start, end, frame_idx) ==
    IF start = NULL /\ end = NULL THEN TRUE
    ELSE Within(ToFrame(start, time_unit, fps), ToFrame(end, time_unit, fps),
                frame_idx)

ActiveInit ==
    \E u \in TimeUnits, f \in FpsValues, s \in BoundValues, e \in BoundValues,
       i \in 0..MaxFrameIdx :
       act = [phase |-> "asked", time_unit |-> u, fps |-> f, start |-> s,
              end |-> e, frame_idx |-> i, result |-> FALSE]

IsActive ==
    /\ act.phase = "asked"
    /\ act' = [act EXCEPT
                 !.phase = "answered",
                 !.result = is_active(act.time_unit, act.fps, act.start,
                                      act.end, act.frame_idx)]
    /\ UNCHANGED <<extractVars, cleanVars, configVars, utilVars>>

InitActive == ExtractIdle /\ ActiveInit /\ CleanIdle /\ ConfigIdle /\ UtilIdle
NextActive == IsActive
SpecActive == InitActive /\ [][NextActive]_vars

\* C6 as stated: with time_unit "seconds" each non-null bound becomes
\* round(bound * fps) before the inclusive comparison with frame_idx.
C6_SecondsBoundsRounded_Original ==
    (act.phase = "answered" /\ act.time_unit = "seconds") =>
        act.result =
            (/\ act.start = NULL
                \/ PyRound(act.start * act.fps, TimeDen) <= act.frame_idx
             /\ act.end = NULL
                \/ act.frame_idx <= PyRound(act.end * act.fps, TimeDen))

\* C6 amended: with time_unit "seconds" each non-null bound becomes
\* int(bound * fps), the product truncated, before the inclusive comparison
\* with frame_idx; start_time 1.0, end_time 2.0, fps 10 is active exactly
\* for the frame indices 10..20.
C6_SecondsBoundsTruncated ==
    (act.phase = "answered" /\ act.time_unit = "seconds") =>
        /\ act.result =
             (/\ act.start = NULL
                 \/ (act.start * act.fps) \div TimeDen <= act.frame_idx
              /\ act.end = NULL
                 \/ act.frame_idx <= (act.end * act.fps) \div TimeDen)
        /\ (act.start = TimeDen /\ act.end = 2 * TimeDen /\ act.fps = 10) =>
              act.result = (act.frame_idx \in 10..20)

\* C6 witness: 0.75 s at 10 fps is frame 7 (7.5 truncated), and frame 7 is
\* active.
C6_Witness ==
    /\ act.phase = "answered"
    /\ act.time_unit = "seconds"
    /\ act.fps = 10
    /\ act.start = 3
    /\ act.end = NULL
    /\ act.frame_idx = 7
    /\ act.result

\* C7: with time_unit "frames" an ROI is active at frame_idx exactly when
\* (start_time is null or start_time <= frame_idx) and (end_time is null or
\* frame_idx <= end_time): both bounds null is always active, and both
\* bounds are inclusive.
C7_FramesWindowInclusive ==
    (act.phase = "answered" /\ act.time_unit = "frames") =>
        /\ act.result =
             (/\ act.start = NULL \/ act.start <= act.frame_idx * TimeDen
              /\ act.end = NULL \/ act.frame_idx * TimeDen <= act.end)
        /\ (act.start = NULL /\ act.end = NULL) => act.result

\* C7 witness: a frame index equal to the upper bound is active.
C7_Witness ==
    /\ act.phase = "answered"
    /\ act.time_unit = "frames"
    /\ act.start # NULL
    /\ act.end = act.frame_idx * TimeDen
    /\ act.frame_idx > 0
    /\ act.result

--------------------------------------------------------------------------
(* plot/: the table and vehicle detection                                 *)
(*                                                                         *)
(* A DataFrame is a function from column names to columns. A column name   *)
(* is the sequence of its dot-separated parts ("starship.speed" is         *)
(* <<"starship", "speed">>), a column the sequence of its cells, NULL for  *)
(* NaN. Speed, altitude and fullness cells are numbers or NaN, as          *)
(* extract_data writes them, so pd.to_numeric leaves them as they are.     *)

TimeCol == <<"real_time_seconds">>
Col(v, metric) == <<v, metric>>
LoxCol(v) == <<v, "fuel", "lox", "fullness">>
Ch4Col(v) == <<v, "fuel", "ch4", "fullness">>

\* mutant: the prefix "fuel" is not filtered out
NonVehiclePrefixes_NoFuel == {"real_time", "time", "frame_number"}

\* line 45
NonVehiclePrefixes == {"real_time", "time", "frame_number", "fuel"}

\* data_processing.py: detect_vehicles
detect_vehicles(d) ==
    LET looks(c) ==
            /\ Len(c) >= 2
            /\ \/ c[2] \in {"speed", "altitude", "fuel", "engines"}
               \/ /\ Len(c) >= 3
                  /\ \/ c[2] \in {"fuel", "engines"}
                     \/ (c[2] = "fuel" /\ c[3] \in {"lox", "ch4"})
    IN  {c[1] : c \in {k \in DOMAIN d : looks(k)}} \ NonVehiclePrefixes

Rows(d) == IF TimeCol \in DOMAIN d THEN Len(d[TimeCol]) ELSE 0

--------------------------------------------------------------------------
(* plot/data_cleaning.py: clean_dataframe                                 *)

SpeedThreshold == 50
AltitudeThreshold == 1
change_thresholds(data_type) ==
    IF data_type = "speed" THEN SpeedThreshold ELSE AltitudeThreshold

DiffName(data_type) ==
    IF data_type = "speed" THEN "speed_diff" ELSE "altitude_diff"

\* line 52: df[col].diff().abs(), NaN in the first row and beside a NaN
Diff(col) ==
    [i \in 1..Len(col) |->
        IF i = 1 THEN NULL
        ELSE IF col[i] = NULL \/ col[i - 1] = NULL THEN NULL
        ELSE Abs(col[i] - col[i - 1])]

\* mutant: a jump equal to the threshold is rejected too
Exceeds_AtLeast(d, threshold) == d # NULL /\ d >= threshold

\* lines 55 and 59: df[diff_col] > threshold, false for NaN
Exceeds(d, threshold) == d # NULL /\ d > threshold

\* line 59: the cells whose diff exceeds the threshold become None
RejectOutliers(col, threshold) ==
    LET d == Diff(col)
    IN  [i \in 1..Len(col) |-> IF Exceeds(d[i], threshold) THEN NULL ELSE col[i]]

clean_dataframe(d) ==
    LET vs == detect_vehicles(d)
        targets == {t \in vs \X {"speed", "altitude"} :
                      Col(t[1], t[2]) \in DOMAIN d}
        diffs == {Col(t[1], DiffName(t[2])) : t \in targets}
        source(c) == CHOOSE t \in targets : c = Col(t[1], DiffName(t[2]))
    IN  [c \in DOMAIN d \cup diffs |->
            IF c \in diffs
            THEN Diff(d[Col(source(c)[1], source(c)[2])])
            ELSE IF \E t \in targets : c = Col(t[1], t[2])
            THEN RejectOutliers(d[c], change_thresholds(c[2]))
            ELSE d[c]]

--------------------------------------------------------------------------
(* plot/fuel_processing.py: normalize_fuel_levels                         *)

FuelTolerance == 30
TimeSplit == 200

\* lines 74-81: the columns the pass requires
RequiredCols(d) ==
    {TimeCol} \cup {LoxCol(v) : v \in detect_vehicles(d)}
              \cup {Ch4Col(v) : v \in detect_vehicles(d)}

Disagree_Above40(lox, ch4) ==
    lox # NULL /\ ch4 # NULL /\ Abs(lox - ch4) > FuelTolerance + 10

\* line 100: abs(lox_value - ch4_value) > 30, false beside a NaN
Disagree(lox, ch4) ==
    lox # NULL /\ ch4 # NULL /\ Abs(lox - ch4) > FuelTolerance

\* mutant: the maximum is still taken at the split time
ChosenValue_MaxAtSplit(current_time, lox, ch4) ==
    IF current_time <= TimeSplit THEN Max(lox, ch4) ELSE Min(lox, ch4)

\* lines 102-105
ChosenValue(current_time, lox, ch4) ==
    IF current_time < TimeSplit THEN Max(lox, ch4) ELSE Min(lox, ch4)

normalize_fuel_levels(d) ==
    IF ~(RequiredCols(d) \subseteq DOMAIN d)
    THEN d
    ELSE LET vs == detect_vehicles(d)
             owner(c) == CHOOSE v \in vs : c \in {LoxCol(v), Ch4Col(v)}
             cell(c, i) ==
                 LET lox == d[LoxCol(owner(c))][i]
                     ch4 == d[Ch4Col(owner(c))][i]
                 IN  IF Disagree(lox, ch4)
                     THEN ChosenValue(d[TimeCol][i], lox, ch4)
                     ELSE d[c][i]
         IN  [c \in DOMAIN d |->
                 IF \E v \in vs : c \in {LoxCol(v), Ch4Col(v)}
                 THEN [i \in 1..Len(d[c]) |-> cell(c, i)]
                 ELSE d[c]]

--------------------------------------------------------------------------
(* SpecOutlier: clean_dataframe applied to bounded tables                 *)

MaxSamples == 4         \* rows of a one-column table
WideRows == 2           \* rows of a two-vehicle table

SpeedSamples == {NULL, 100, 101, 150, 400}
AltitudeSamples == {NULL, 0, 1, 3}

\* real_time_seconds of a table sorted by time: 1, 2, ..., n
Clock(n) == [i \in 1..n |-> i]

OutlierTables ==
    UNION { { (TimeCol :> Clock(n)) @@ (Col("starship", "speed") :> s) :
                s \in [1..n -> SpeedSamples] } : n \in 1..MaxSamples }
    \cup
    UNION { { (TimeCol :> Clock(n)) @@ (Col("superheavy", "altitude") :> a) :
                a \in [1..n -> AltitudeSamples] } : n \in 1..MaxSamples }
    \cup
    { (TimeCol :> Clock(WideRows)) @@ (Col("starship", "speed") :> s)
         @@ (Col("superheavy", "altitude") :> a) :
        s \in [1..WideRows -> SpeedSamples],
        a \in [1..WideRows -> AltitudeSamples] }

CleanDataframe ==
    /\ stage = "loaded"
    /\ df' = clean_dataframe(df)
    /\ stage' = "cleaned"
    /\ UNCHANGED <<df_in, vehicle_list, extractVars, act, configVars, utilVars>>

InitOutlier ==
    /\ ExtractIdle
    /\ ActiveIdle
    /\ ConfigIdle
    /\ UtilIdle
    /\ df \in OutlierTables
    /\ df_in = df
    /\ stage = "loaded"
    /\ vehicle_list = {}

NextOutlier == CleanDataframe
SpecOutlier == InitOutlier /\ [][NextOutlier]_vars

\* the columns of a table that hold speed or altitude samples
SampleCols(d) == {c \in DOMAIN d : Len(c) = 2 /\ c[2] \in {"speed", "altitude"}}

\* the rule of C4: a sample is nulled exactly when it and the sample before
\* it were read and differ by more than 50 (speed) or 1 (altitude); nothing
\* else changes
OutlierRule ==
    /\ df[TimeCol] = df_in[TimeCol]
    /\ \A c \in SampleCols(df_in) :
         \A i \in 1..Len(df_in[c]) :
            LET limit == IF c[2] = "speed" THEN 50 ELSE 1
                jump == /\ i > 1
                        /\ df_in[c][i] # NULL
                        /\ df_in[c][i - 1] # NULL
                        /\ Abs(df_in[c][i] - df_in[c][i - 1]) > limit
            IN  df[c][i] = IF jump THEN NULL ELSE df_in[c][i]

\* C4 as stated: the rule, and for the speed series [100, 100, 400, 101]
\* only the third sample becomes null.
C4_OutlierRejection_Original ==
    stage = "cleaned" =>
        /\ OutlierRule
        /\ \A c \in SampleCols(df_in) :
             df_in[c] = <<100, 100, 400, 101>> =>
                df[c] = <<100, 100, NULL, 101>>

\* C4 amended: outlier rejection nulls a sample whose jump from the
\* preceding sample, as read, exceeds 50 km/h (1 km for altitude) and leaves
\* every other sample untouched; for the speed series [100, 100, 400, 101]
\* the third and the fourth sample become null (101 is 299 away from 400),
\* the first and the second keep their values.
C4_OutlierRejection ==
    stage = "cleaned" =>
        /\ OutlierRule
        /\ \A c \in SampleCols(df_in) :
             df_in[c] = <<100, 100, 400, 101>> =>
                df[c] = <<100, 100, NULL, NULL>>

\* C4 witness: the series of the example was cleaned.
C4_Witness ==
    /\ stage = "cleaned"
    /\ Col("starship", "speed") \in DOMAIN df_in
    /\ df_in[Col("starship", "speed")] = <<100, 100, 400, 101>>
    /\ df[Col("starship", "speed")] = <<100, 100, NULL, NULL>>

--------------------------------------------------------------------------
(* SpecFuel: normalize_fuel_levels applied to bounded tables              *)

MaxFuelRows == 2

FuelSamples == {NULL, 40, 70, 80}
TimeSamples == {50, 199, 200, 250}

\* real_time_seconds of a sorted table of n rows
SortedTimes(n) ==
    {t \in [1..n -> TimeSamples] : \A i \in 1..(n - 1) : t[i] <= t[i + 1]}

FuelTables ==
    \* one vehicle, both columns
    { (TimeCol :> t) @@ (LoxCol("starship") :> l) @@ (Ch4Col("starship") :> c) :
        t \in UNION {SortedTimes(n) : n \in 1..MaxFuelRows},
        l \in UNION {[1..n -> FuelSamples] : n \in 1..MaxFuelRows},
        c \in UNION {[1..n -> FuelSamples] : n \in 1..MaxFuelRows} }
    \cup
    \* two vehicles, one row
    { (TimeCol :> t) @@ (LoxCol("starship") :> l) @@ (Ch4Col("starship") :> c)
         @@ (LoxCol("superheavy") :> l2) @@ (Ch4Col("superheavy") :> c2) :
        t \in SortedTimes(1),
        l \in [1..1 -> FuelSamples], c \in [1..1 -> FuelSamples],
        l2 \in [1..1 -> FuelSamples], c2 \in [1..1 -> FuelSamples] }
    \cup
    \* a second vehicle without fuel columns
    { (TimeCol :> t) @@ (LoxCol("starship") :> l) @@ (Ch4Col("starship") :> c)
         @@ (Col("superheavy", "speed") :> <<100>>) :
        t \in SortedTimes(1),
        l \in [1..1 -> FuelSamples], c \in [1..1 -> FuelSamples] }

\* the tables whose columns all have one length
WellFormed(d) == \A c \in DOMAIN d : Len(d[c]) = Rows(d)

NormalizeFuelLevels ==
    /\ stage = "loaded"
    /\ df' = normalize_fuel_levels(df)
    /\ stage' = "normalized"
    /\ UNCHANGED <<df_in, vehicle_list, extractVars, act, configVars, utilVars>>

InitFuel ==
    /\ ExtractIdle
    /\ ActiveIdle
    /\ ConfigIdle
    /\ UtilIdle
    /\ df \in {d \in FuelTables : WellFormed(d)}
    /\ df_in = df
    /\ stage = "loaded"
    /\ vehicle_list = {}

NextFuel == NormalizeFuelLevels
SpecFuel == InitFuel /\ [][NextFuel]_vars

--------------------------------------------------------------------------
(* SpecDetect: detect_vehicles applied to bounded column sets             *)

\* column names a table can carry: the columns of the frame records, the
\* columns the passes derive, legacy flat names, and names under a
\* non-vehicle prefix that look like vehicle data
DetectColumns ==
    { Col("starship", "speed"), Col("starship", "altitude"),
      LoxCol("superheavy"), <<"superheavy", "engines", "inner_ring">>,
      Col("starship", "speed_diff"), Col("booster", "speed_diff"),
      <<"time", "sign">>, <<"frame_number">>,
      <<"starship_fuel_lox_fullness">>,
      Col("time", "speed"), <<"fuel", "engines", "x">> }

\* one-row tables over every subset of the column names
DetectTables ==
    { [c \in cols \cup {TimeCol} |-> <<0>>] : cols \in SUBSET DetectColumns }

\* a caller's vehicles = detect_vehicles(df)
DetectVehicles ==
    /\ stage = "loaded"
    /\ vehicle_list' = detect_vehicles(df)
    /\ stage' = "detected"
    /\ UNCHANGED <<df, df_in, extractVars, act, configVars, utilVars>>

InitDetect ==
    /\ ExtractIdle
    /\ ActiveIdle
    /\ ConfigIdle
    /\ UtilIdle
    /\ df \in DetectTables
    /\ df_in = df
    /\ stage = "loaded"
    /\ vehicle_list = {}

NextDetect == DetectVehicles
SpecDetect == InitDetect /\ [][NextDetect]_vars

\* the remainder of a column name (after the first '.') reads speed,
\* altitude, fuel.<something> or engines.<something>
RemainderMatches(c) ==
    /\ Len(c) >= 2
    /\ \/ Tail(c) = <<"speed">>
       \/ Tail(c) = <<"altitude">>
       \/ (Len(c) >= 3 /\ c[2] \in {"fuel", "engines"})

--------------------------------------------------------------------------
(* plot/data_cleaning.py: process_engine_data                             *)
(*                                                                         *)
(* A cell of an engines column is [list |-> TRUE, items |-> the booleans]  *)
(* when the record held a list, and NotAList (NaN) when the record had no  *)
(* such key.                                                               *)

NotAList == [list |-> FALSE, items |-> <<>>]
ListCell(items) == [list |-> TRUE, items |-> items]

\* lines 82-101: engine_configs, group -> total per vehicle
engine_configs ==
    [v \in {"superheavy", "starship", "new_glenn"} |->
        CASE v = "superheavy" ->
                [g \in {"central_stack", "inner_ring", "outer_ring"} |->
                    CASE g = "central_stack" -> 3
                      [] g = "inner_ring" -> 10
                      [] g = "outer_ring" -> 20]
          [] v = "starship" -> [g \in {"rearth", "rvac"} |-> 3]
          [] v = "new_glenn" -> [g \in {"booster"} |-> 7]]

\* the 'column' entry of a group
EngineCol(v, g) == <<v, "engines", g>>
\* lines 108-109, 114-115: the names of the derived columns (no dot)
ActiveCol(v, g) == <<v \o "_" \o g \o "_active">>
TotalCol(v, g) == <<v \o "_" \o g \o "_total">>
AllActiveCol(v) == <<v \o "_all_active">>
AllTotalCol(v) == <<v \o "_all_total">>

RECURSIVE SumOver(_, _)
\* sum of f over the set S
SumOver(S, f) ==
    IF S = {} THEN 0
    ELSE LET x == CHOOSE y \in S : TRUE
         IN  f[x] + SumOver(S \ {x}, f)

\* mutant: every entry of the list is counted
CountActive_Length(x) == IF x.list THEN Len(x.items) ELSE 0

\* line 135: sum(1 for engine in x if engine) if isinstance(x, list) else 0
CountActive(x) ==
    IF x.list THEN Cardinality({i \in 1..Len(x.items) : x.items[i]}) ELSE 0

\* a column of n equal cells, df[col] = scalar
Filled(n, cell) == [i \in 1..n |-> cell]

process_engine_data(d) ==
    LET n == Rows(d)
        vs == detect_vehicles(d) \cap DOMAIN engine_configs
        groups(v) == DOMAIN engine_configs[v]
        present(v) == {g \in groups(v) : EngineCol(v, g) \in DOMAIN d}
        active(v, g) ==
            IF g \in present(v)
            THEN [i \in 1..n |-> CountActive(d[EngineCol(v, g)][i])]
            ELSE Filled(n, 0)
        all_active(v) ==
            [i \in 1..n |->
                SumOver(present(v), [g \in present(v) |-> active(v, g)[i]])]
        derived(v) ==
            [c \in {ActiveCol(v, g) : g \in groups(v)}
                   \cup {TotalCol(v, g) : g \in groups(v)}
                   \cup {AllActiveCol(v), AllTotalCol(v)} |->
                IF c = AllActiveCol(v) THEN all_active(v)
                ELSE IF c = AllTotalCol(v)
                THEN Filled(n, SumOver(groups(v), engine_configs[v]))
                ELSE IF \E g \in groups(v) : c = ActiveCol(v, g)
                THEN active(v, CHOOSE g \in groups(v) : c = ActiveCol(v, g))
                ELSE Filled(n, engine_configs[v]
                                 [CHOOSE g \in groups(v) : c = TotalCol(v, g)])]
        dropped == UNION {{EngineCol(v, g) : g \in groups(v)} : v \in vs}
        kept == DOMAIN d \ dropped
        added == UNION {DOMAIN derived(v) : v \in vs}
    IN  [c \in kept \cup added |->
            IF c \in added
            THEN derived(CHOOSE v \in vs : c \in DOMAIN derived(v))[c]
            ELSE d[c]]

--------------------------------------------------------------------------
(* SpecEngine: process_engine_data applied to bounded tables              *)

EngineRows == 2         \* rows of the longest engine table

\* what a record can hold under engines.<group>
EngineCells ==
    {NotAList, ListCell(<<>>), ListCell(<<TRUE, FALSE, TRUE>>),
     ListCell(<<TRUE, TRUE>>)}

\* a column, or none
Optional(name, cols) == {EmptyDict} \cup {(name :> col) : col \in cols}

\* one-row tables: starship (a vehicle of engine_configs) with any of its
\* two groups, a group the configuration does not name, and falcon9 (a
\* vehicle engine_configs does not name) with a group of its own
NarrowEngineTables ==
    { (TimeCol :> <<1>>) @@ a @@ b @@ c @@ s @@ f @@ g :
        a \in Optional(EngineCol("starship", "rvac"),
                       [1..1 -> EngineCells]),
        b \in Optional(EngineCol("starship", "rearth"),
                       [1..1 -> EngineCells]),
        c \in Optional(EngineCol("starship", "header"),
                       {<<ListCell(<<TRUE>>)>>}),
        s \in Optional(Col("starship", "speed"), {<<100>>}),
        f \in Optional(EngineCol("falcon9", "main"),
                       {<<ListCell(<<TRUE, TRUE>>)>>}),
        g \in Optional(Col("falcon9", "speed"), {<<100>>}) }

\* tables of EngineRows rows: superheavy with two of its three groups
LongEngineTables ==
    { (TimeCol :> Clock(EngineRows))
         @@ (EngineCol("superheavy", "central_stack") :> a)
         @@ (EngineCol("superheavy", "outer_ring") :> b) :
        a \in [1..EngineRows -> {NotAList, ListCell(<<TRUE, FALSE, TRUE>>)}],
        b \in [1..EngineRows -> {ListCell(<<>>), ListCell(<<TRUE, TRUE>>)}] }

EngineTables == NarrowEngineTables \cup LongEngineTables

ProcessEngineData ==
    /\ stage = "loaded"
    /\ df' = process_engine_data(df)
    /\ stage' = "engines"
    /\ UNCHANGED <<df_in, vehicle_list, extractVars, act, configVars, utilVars>>

InitEngine ==
    /\ ExtractIdle
    /\ ActiveIdle
    /\ ConfigIdle
    /\ UtilIdle
    /\ df \in EngineTables
    /\ df_in = df
    /\ stage = "loaded"
    /\ vehicle_list = {}

NextEngine == ProcessEngineData
SpecEngine == InitEngine /\ [][NextEngine]_vars

\* the engines.<group> columns of a vehicle in a table
RawEngineCols(d, v) ==
    {c \in DOMAIN d : Len(c) = 3 /\ c[1] = v /\ c[2] = "engines"}

\* C12: engine aggregation is vehicle-agnostic: for every detected vehicle
\* that has <vehicle>.engines.<group> columns, whatever its name,
\* process_engine_data produces <vehicle>_all_active and drops that
\* vehicle's raw boolean-list engine columns.
C12_AggregationVehicleAgnostic ==
    stage = "engines" =>
        \A v \in detect_vehicles(df_in) :
            RawEngineCols(df_in, v) # {} =>
                /\ AllActiveCol(v) \in DOMAIN df
                /\ RawEngineCols(df, v) = {}

\* the number of true entries of a cell, 0 when it is not a list
TrueEntries(x) ==
    IF x.list THEN Len(SelectSeq(x.items, LAMBDA e : e)) ELSE 0

\* C13: for a vehicle with declared engine groups, in every row each
\* <vehicle>_<group>_active is the number of true entries of the row's
\* boolean list (0 when the cell is not a list, 0 when the source column is
\* absent), and <vehicle>_all_active is the sum of the active counts of the
\* groups whose source column is present, 0 when none is present.
C13_ActiveCounts ==
    stage = "engines" =>
        \A v \in detect_vehicles(df_in) \cap DOMAIN engine_configs :
            LET groups == DOMAIN engine_configs[v]
                there == {g \in groups : EngineCol(v, g) \in DOMAIN df_in}
            IN  \A i \in 1..Rows(df_in) :
                   /\ \A g \in there :
                         df[ActiveCol(v, g)][i] =
                            TrueEntries(df_in[EngineCol(v, g)][i])
                   /\ \A g \in groups \ there : df[ActiveCol(v, g)][i] = 0
                   /\ df[AllActiveCol(v)][i] =
                         SumOver(there, [g \in there |-> df[ActiveCol(v, g)][i]])
                   /\ there = {} => df[AllActiveCol(v)][i] = 0

\* C13 witness: a starship row with rvac [true, false, true] and rearth
\* [true, true] was aggregated to 2, 2 and 4.
C13_Witness ==
    /\ stage = "engines"
    /\ EngineCol("starship", "rvac") \in DOMAIN df_in
    /\ EngineCol("starship", "rearth") \in DOMAIN df_in
    /\ df_in[EngineCol("starship", "rvac")][1] = ListCell(<<TRUE, FALSE, TRUE>>)
    /\ df_in[EngineCol("starship", "rearth")][1] = ListCell(<<TRUE, TRUE>>)
    /\ df[ActiveCol("starship", "rvac")][1] = 2
    /\ df[ActiveCol("starship", "rearth")][1] = 2
    /\ df[AllActiveCol("starship")][1] = 4

--------------------------------------------------------------------------
(* plot/fuel_processing.py: prepare_fuel_data_columns                     *)

FuelTypes == <<"lox", "ch4">>

\* the canonical column <vehicle>.fuel.<fuel_type>.fullness
FuelCol(v, fuel_type) == <<v, "fuel", fuel_type, "fullness">>

\* lines 32-37: possible_names, in the order they are tried
possible_names(v, fuel_type) ==
    << FuelCol(v, fuel_type),
       <<v \o "_fuel_" \o fuel_type \o "_fullness">>,
       <<v, fuel_type \o "_fullness">>,
       <<v \o "_" \o fuel_type \o "_fullness">> >>

\* line 25: some vehicle has its canonical lox column
fuel_columns_exist(d) ==
    \E v \in detect_vehicles(d) : FuelCol(v, "lox") \in DOMAIN d

\* lines 40-51: the first existing name is copied, else a column of zeros
PreparedColumn(d, v, fuel_type) ==
    LET names == possible_names(v, fuel_type)
        hits == {k \in 1..Len(names) : names[k] \in DOMAIN d}
    IN  IF hits = {}
        THEN Filled(Rows(d), 0)
        ELSE d[names[CHOOSE k \in hits : \A j \in hits : k <= j]]

prepare_fuel_data_columns(d) ==
    IF fuel_columns_exist(d)
    THEN d
    ELSE LET vs == detect_vehicles(d)
             made == {FuelCol(v, FuelTypes[k]) : v \in vs, k \in 1..2}
         IN  [c \in DOMAIN d \cup made |->
                 IF c \in made
                 THEN PreparedColumn(d, c[1], c[3])
                 ELSE d[c]]

--------------------------------------------------------------------------
(* SpecPrepare: prepare_fuel_data_columns applied to bounded tables       *)

\* one-row tables: starship and superheavy, each with or without its
\* canonical and its historically named fullness columns
PrepareTables ==
    { (TimeCol :> <<1>>) @@ (Col("starship", "speed") :> <<100>>)
         @@ a @@ b @@ c @@ e @@ f @@ g @@ h :
        a \in Optional(FuelCol("starship", "lox"), {<<80>>}),
        b \in Optional(FuelCol("starship", "ch4"), {<<75>>}),
        c \in Optional(possible_names("starship", "lox")[2], {<<70>>}),
        e \in Optional(possible_names("starship", "lox")[3], {<<60>>}),
        f \in Optional(Col("superheavy", "speed"), {<<200>>}),
        g \in Optional(FuelCol("superheavy", "lox"), {<<50>>}),
        h \in Optional(possible_names("superheavy", "ch4")[4], {<<40>>}) }

PrepareFuelDataColumns ==
    /\ stage = "loaded"
    /\ df' = prepare_fuel_data_columns(df)
    /\ stage' = "prepared"
    /\ UNCHANGED <<df_in, vehicle_list, extractVars, act, configVars, utilVars>>

InitPrepare ==
    /\ ExtractIdle
    /\ ActiveIdle
    /\ ConfigIdle
    /\ UtilIdle
    /\ df \in PrepareTables
    /\ df_in = df
    /\ stage = "loaded"
    /\ vehicle_list = {}

NextPrepare == PrepareFuelDataColumns
SpecPrepare == InitPrepare /\ [][NextPrepare]_vars

\* C14: after prepare_fuel_data_columns every detected vehicle has both
\* canonical columns <vehicle>.fuel.lox.fullness and
\* <vehicle>.fuel.ch4.fullness; a canonical column that was missing is a
\* copy of the first existing alternate-named column, or zero-filled when
\* there is none, also when another vehicle (or the other propellant of the
\* same vehicle) already had its canonical column.
C14_CanonicalFuelColumns ==
    stage = "prepared" =>
        \A v \in detect_vehicles(df_in) : \A t \in {"lox", "ch4"} :
            LET canon == <<v, "fuel", t, "fullness">>
                alt1 == <<v \o "_fuel_" \o t \o "_fullness">>
                alt2 == <<v, t \o "_fullness">>
                alt3 == <<v \o "_" \o t \o "_fullness">>
            IN  /\ canon \in DOMAIN df
                /\ canon \in DOMAIN df_in => df[canon] = df_in[canon]
                /\ canon \notin DOMAIN df_in =>
                     df[canon] =
                        IF alt1 \in DOMAIN df_in THEN df_in[alt1]
                        ELSE IF alt2 \in DOMAIN df_in THEN df_in[alt2]
                        ELSE IF alt3 \in DOMAIN df_in THEN df_in[alt3]
                        ELSE [i \in 1..Rows(df_in) |-> 0]

--------------------------------------------------------------------------
(* Claims about a missing fuel column, checked under SpecFuel             *)

\* the detected vehicles of a table that lack a fullness column
LackingFuel(d) ==
    {v \in detect_vehicles(d) : ~({LoxCol(v), Ch4Col(v)} \subseteq DOMAIN d)}

\* C15: when the reconciliation pass finds a fuel column of one vehicle
\* absent it skips only that vehicle: every other detected vehicle whose lox
\* and ch4 fullness columns are both present is still reconciled in that
\* pass (readings more than 30 apart both become the larger one before
\* 200 s, the smaller one from 200 s on).
C15_SkipsOnlyTheVehicle ==
    (stage = "normalized" /\ LackingFuel(df_in) # {}) =>
        \A v \in detect_vehicles(df_in) \ LackingFuel(df_in) :
           \A i \in 1..Rows(df_in) :
              LET t == df_in[TimeCol][i]
                  lox == df_in[LoxCol(v)][i]
                  ch4 == df_in[Ch4Col(v)][i]
                  apart == lox # NULL /\ ch4 # NULL /\ Abs(lox - ch4) > 30
                  wanted == IF t < 200 THEN Max(lox, ch4) ELSE Min(lox, ch4)
              IN  apart => /\ df[LoxCol(v)][i] = wanted
                           /\ df[Ch4Col(v)][i] = wanted

--------------------------------------------------------------------------
(* SpecFuelTwice: normalize_fuel_levels applied, and applied again        *)

\* a second call on the table the first call returned
NormalizeAgain ==
    /\ stage = "normalized"
    /\ df' = normalize_fuel_levels(df)
    /\ stage' = "normalized_twice"
    /\ UNCHANGED <<df_in, vehicle_list, extractVars, act, configVars, utilVars>>

NextFuelTwice == NormalizeFuelLevels \/ NormalizeAgain
SpecFuelTwice == InitFuel /\ [][NextFuelTwice]_vars

\* the rows of vehicle v in table d where the two readings are numbers at
\* most 30 apart; a comparison with NaN is false
WithinTolerance(d, v) ==
    {i \in 1..Rows(d) :
        /\ d[LoxCol(v)][i] # NULL
        /\ d[Ch4Col(v)][i] # NULL
        /\ Abs(d[LoxCol(v)][i] - d[Ch4Col(v)][i]) <= 30}

\* the rows of vehicle v in table d where a reading is missing
MissingReading(d, v) ==
    {i \in 1..Rows(d) : d[LoxCol(v)][i] = NULL \/ d[Ch4Col(v)][i] = NULL}

\* C30 as stated: when normalize_fuel_levels runs with all required
\* columns present, afterwards every row satisfies |lox - ch4| <= 30 for
\* every detected vehicle, so applying normalize_fuel_levels a second time
\* changes no cell.
C30_EveryRowWithinTolerance ==
    [][ (stage = "normalized" /\ RequiredCols(df_in) \subseteq DOMAIN df_in)
        => /\ \A v \in detect_vehicles(df) :
                 WithinTolerance(df, v) = 1..Rows(df)
           /\ df' = df ]_vars

\* C30 amended: afterwards every row in which both readings are numbers
\* satisfies |lox - ch4| <= 30 for every detected vehicle, a row with a
\* missing reading is as it was, and applying normalize_fuel_levels a
\* second time changes no cell.
C30_NumericRowsWithinTolerance ==
    [][ (stage = "normalized" /\ RequiredCols(df_in) \subseteq DOMAIN df_in)
        => /\ \A v \in detect_vehicles(df) :
                 /\ WithinTolerance(df, v) \cup MissingReading(df, v)
                       = 1..Rows(df)
                 /\ \A i \in MissingReading(df_in, v) :
                       /\ df[LoxCol(v)][i] = df_in[LoxCol(v)][i]
                       /\ df[Ch4Col(v)][i] = df_in[Ch4Col(v)][i]
           /\ df' = df ]_vars

\* a row with lox 80 and ch4 40 was reconciled and the pass has run twice
C30_Witness ==
    /\ stage = "normalized_twice"
    /\ RequiredCols(df_in) \subseteq DOMAIN df_in
    /\ df_in[LoxCol("starship")][1] = 80
    /\ df_in[Ch4Col("starship")][1] = 40
    /\ df[LoxCol("starship")][1] = df[Ch4Col("starship")][1]

--------------------------------------------------------------------------
(* plot/data_processing.py: load_and_clean_data                           *)
(*                                                                         *)
(* The table is the records after pd.json_normalize: one row per record,   *)
(* in file order. validate_json looks at the keys of the first record; a   *)
(* file without records, or whose first record lacks frame_number or       *)
(* real_time_seconds, is invalid. No column of flattened records is named  *)
(* like a vehicle, so the column separation of lines 108-112 finds nothing *)
(* to separate.                                                            *)

FrameCol == <<"frame_number">>
\* a 'time' entry that is not a mapping stays one column
ClockCol == <<"time">>

\* data_validation.py: validate_json, on the flattened records
validate_json(d) ==
    /\ d # EmptyDict
    /\ Rows(d) >= 1
    /\ FrameCol \in DOMAIN d

\* pd.DataFrame(), what the error paths return
EmptyFrame == EmptyDict

\* lines 98-99: df.drop(columns=["time"])
DropColumn(d, name) == [c \in DOMAIN d \ {name} |-> d[c]]

\* mutant: the sort asks for the dropped 'time' column
SortKey_Time == ClockCol

\* line 115: by="real_time_seconds"
SortKey == TimeCol

\* mutant: descending order
InOrder_Descending(a, b) == a >= b

\* line 115: ascending order
InOrder(a, b) == a <= b

\* the row orders sort_values may produce: every order that sorts the key
\* (quicksort is not stable, rows with equal keys come in any order)
SortOrders(key) ==
    {p \in [1..Len(key) -> 1..Len(key)] :
        /\ \A i, j \in 1..Len(key) : i # j => p[i] # p[j]
        /\ \A i \in 1..(Len(key) - 1) : InOrder(key[p[i]], key[p[i + 1]])}

\* the table with its rows in the order p
Reorder(d, p) == [c \in DOMAIN d |-> [i \in 1..Len(p) |-> d[c][p[i]]]]

\* lines 64-91: the file is read, validated and flattened
PipelineLoad ==
    /\ stage = "json"
    /\ IF validate_json(df)
       THEN stage' = "frame" /\ UNCHANGED df
       ELSE stage' = "returned" /\ df' = EmptyFrame
    /\ UNCHANGED <<df_in, vehicle_list, extractVars, act, configVars, utilVars>>

\* line 95
PipelineEngines ==
    /\ stage = "frame"
    /\ df' = process_engine_data(df)
    /\ stage' = "aggregated"
    /\ UNCHANGED <<df_in, vehicle_list, extractVars, act, configVars, utilVars>>

\* lines 98-112: 'time' is dropped, the vehicles are detected
PipelineSeparate ==
    /\ stage = "aggregated"
    /\ df' = DropColumn(df, ClockCol)
    /\ vehicle_list' = detect_vehicles(df')
    /\ stage' = "separated"
    /\ UNCHANGED <<df_in, extractVars, act, configVars, utilVars>>

\* line 115, and lines 134-137 when the key column does not exist
PipelineSort ==
    /\ stage = "separated"
    /\ IF SortKey \in DOMAIN df
       THEN /\ \E p \in SortOrders(df[SortKey]) : df' = Reorder(df, p)
            /\ stage' = "sorted"
       ELSE /\ df' = EmptyFrame
            /\ stage' = "returned"
    /\ UNCHANGED <<df_in, vehicle_list, extractVars, act, configVars, utilVars>>

\* line 119
PipelinePrepare ==
    /\ stage = "sorted"
    /\ df' = prepare_fuel_data_columns(df)
    /\ stage' = "fuel_named"
    /\ UNCHANGED <<df_in, vehicle_list, extractVars, act, configVars, utilVars>>

PipelineNormalize_BeforePrepare ==
    /\ stage = "sorted"
    /\ df' = normalize_fuel_levels(df)
    /\ stage' = "reconciled"
    /\ UNCHANGED <<df_in, vehicle_list, extractVars, act, configVars, utilVars>>

\* line 122
PipelineNormalize ==
    /\ stage = "fuel_named"
    /\ df' = normalize_fuel_levels(df)
    /\ stage' = "reconciled"
    /\ UNCHANGED <<df_in, vehicle_list, extractVars, act, configVars, utilVars>>

\* lines 125-128: the last pass, and the table is returned
PipelineClean ==
    /\ stage = "reconciled"
    /\ df' = clean_dataframe(df)
    /\ stage' = "returned"
    /\ UNCHANGED <<df_in, vehicle_list, extractVars, act, configVars, utilVars>>

--------------------------------------------------------------------------
(* SpecPipeline: load_and_clean_data, one pass per step                   *)

PipelineRows == 3       \* records of the longest file

\* real_time_seconds of the records, in file order
PipelineTimes == UNION {[1..n -> {50, 250}] : n \in 1..PipelineRows}

\* what the records of a flight hold for one vehicle, row by row
MetricCells(metric, n) ==
    [i \in 1..n |->
        CASE metric = "speed" -> IF i % 2 = 1 THEN 100 ELSE 400
          [] metric = "altitude" -> IF i % 2 = 1 THEN 1 ELSE NULL
          [] metric = "lox" -> IF i % 2 = 1 THEN 80 ELSE 40
          [] metric = "ch4" -> IF i % 3 = 0 THEN 70 ELSE 40
          [] metric = "engines" ->
                IF i % 2 = 1 THEN ListCell(<<TRUE, FALSE, TRUE>>)
                ELSE NotAList]

MetricCol(v, metric) ==
    CASE metric \in {"speed", "altitude"} -> Col(v, metric)
      [] metric \in {"lox", "ch4"} -> FuelCol(v, metric)
      [] metric = "engines" -> EngineCol(v, "rvac")

Metrics == {"speed", "altitude", "lox", "ch4", "engines"}

\* the flattened records of one vehicle that has the given metrics
VehicleColumns(v, metrics, n) ==
    [c \in {MetricCol(v, m) : m \in metrics} |->
        MetricCells(CHOOSE m \in metrics : c = MetricCol(v, m), n)]

\* the columns every record has
RecordColumns(t) == (TimeCol :> t) @@ (FrameCol :> Clock(Len(t)))

\* a flight of one vehicle: a vehicle engine_configs names or one it does
\* not, any subset of its metrics, with or without a scalar 'time'
OneVehicleTables ==
    { RecordColumns(t) @@ VehicleColumns(v, ms, Len(t))
         @@ (IF k THEN (ClockCol :> Filled(Len(t), 0)) ELSE EmptyDict) :
        t \in PipelineTimes, v \in {"starship", "falcon9"},
        ms \in SUBSET Metrics, k \in BOOLEAN }

\* a flight of two vehicles, the second with or without fuel columns
TwoVehicleTables ==
    { RecordColumns(t)
         @@ VehicleColumns("starship", {"speed", "lox", "ch4"}, Len(t))
         @@ VehicleColumns("superheavy", ms, Len(t)) :
        t \in PipelineTimes,
        ms \in {{"speed"}, {"speed", "lox", "ch4"}} }

\* files validate_json rejects: no record, no frame_number
InvalidTables ==
    {EmptyDict, (TimeCol :> <<50>>) @@ (Col("starship", "speed") :> <<100>>)}

PipelineTables == OneVehicleTables \cup TwoVehicleTables \cup InvalidTables

InitPipeline ==
    /\ ExtractIdle
    /\ ActiveIdle
    /\ ConfigIdle
    /\ UtilIdle
    /\ df \in PipelineTables
    /\ df_in = df
    /\ stage = "json"
    /\ vehicle_list = {}

NextPipeline ==
    \/ PipelineLoad
    \/ PipelineEngines
    \/ PipelineSeparate
    \/ PipelineSort
    \/ PipelinePrepare
    \/ PipelineNormalize
    \/ PipelineClean

SpecPipeline == InitPipeline /\ [][NextPipeline]_vars

\* the positions of load_and_clean_data in the order of its lines
PassOrder ==
    <<"json", "frame", "aggregated", "separated", "sorted", "fuel_named",
      "reconciled", "returned">>
Position(s) == CHOOSE i \in 1..Len(PassOrder) : PassOrder[i] = s

\* C26: the cleaning pipeline applies its passes in the fixed order engine
\* aggregation, then fuel column normalization, then fuel reconciliation,
\* then outlier rejection, each exactly once, and the sort by
\* real_time_seconds happens before fuel reconciliation and outlier
\* rejection: every step is the next pass of that order applied to the
\* table, or the return of an empty table before any of the four passes
\* or in place of the sort.
C26_PassOrder ==
    [][ stage' # stage =>
          \/ /\ stage = "frame"
             /\ stage' = "aggregated"
             /\ df' = process_engine_data(df)
          \/ /\ stage = "sorted"
             /\ stage' = "fuel_named"
             /\ df' = prepare_fuel_data_columns(df)
          \/ /\ stage = "fuel_named"
             /\ stage' = "reconciled"
             /\ df' = normalize_fuel_levels(df)
          \/ /\ stage = "reconciled"
             /\ stage' = "returned"
             /\ df' = clean_dataframe(df)
          \/ /\ stage \in {"json", "aggregated", "separated"}
             /\ Position(stage') = Position(stage) + 1
             /\ stage' = "sorted" =>
                   \E p \in SortOrders(df[SortKey]) : df' = Reorder(df, p)
          \/ /\ stage \in {"json", "separated"}
             /\ stage' = "returned"
             /\ df' = EmptyFrame ]_vars

\* a call ran through all its passes and returned a table
C26_Witness == stage = "returned" /\ df # EmptyFrame

\* the vehicles whose columns a table of records contains
VehiclesOf(d) == {c[1] : c \in {k \in DOMAIN d : Len(k) >= 2}}

\* C16: given a valid time series with columns of only one vehicle, the
\* cleaning pipeline (engine aggregation, fuel column normalization, fuel
\* reconciliation, outlier rejection) completes without error and returns a
\* non-empty table with that vehicle's columns, whichever vehicle it is and
\* whichever of its expected columns are absent.
C16_OneVehicleFlight ==
    (stage = "returned" /\ validate_json(df_in)
       /\ Cardinality(VehiclesOf(df_in)) = 1) =>
        /\ df # EmptyFrame
        /\ Rows(df) = Rows(df_in)
        /\ Rows(df) >= 1
        /\ \A c \in DOMAIN df_in :
              (Len(c) >= 2 /\ c[2] # "engines") => c \in DOMAIN df

\* C16 witness: a flight of falcon9 that recorded nothing but its speed
\* came back with its rows and its speed column.
C16_Witness ==
    /\ stage = "returned"
    /\ DOMAIN df_in = {TimeCol, FrameCol, Col("falcon9", "speed")}
    /\ Rows(df) = Rows(df_in)
    /\ Col("falcon9", "speed") \in DOMAIN df

\* C17: the table load_and_clean_data returns for a valid input has its
\* rows in non-decreasing real_time_seconds order and exactly one row per
\* input record: no pass after the sort adds, removes, duplicates or
\* reorders rows.
C17_SortedOneRowPerRecord ==
    (stage = "returned" /\ validate_json(df_in)) =>
        /\ TimeCol \in DOMAIN df /\ FrameCol \in DOMAIN df
        /\ Len(df[TimeCol]) = Len(df_in[TimeCol])
        /\ \A c \in DOMAIN df : Len(df[c]) = Len(df_in[TimeCol])
        /\ \A i \in 1..(Len(df[TimeCol]) - 1) :
              df[TimeCol][i] <= df[TimeCol][i + 1]
        /\ \A r \in 1..Len(df_in[FrameCol]) :
              Cardinality({i \in 1..Len(df[FrameCol]) :
                              df[FrameCol][i] = df_in[FrameCol][r]}) = 1
        /\ \A i \in 1..Len(df[FrameCol]) :
              df[TimeCol][i] = df_in[TimeCol][df[FrameCol][i]]

\* C17 witness: records that came out of time order were returned sorted.
C17_Witness ==
    /\ stage = "returned"
    /\ validate_json(df_in)
    /\ Rows(df_in) >= 2
    /\ df_in[TimeCol][1] = 250
    /\ df_in[TimeCol][2] = 50
    /\ df[TimeCol][1] = 50

--------------------------------------------------------------------------
(* config_gui: the ROI configuration, its file and the editor's handlers  *)
(*                                                                         *)
(* config is the ROIConfig object of the open editor (NoConfig before an   *)
(* editor is opened), disk the one configuration file the handlers can     *)
(* name. An ROI is the record of MakeRoi; label, start_time and end_time   *)
(* take no part in what is stated here and are left out. A handler acts on *)
(* the ROI the user selected, given as its index in config.rois.           *)

MaxRois == 2            \* longest ROI list the editor builds
MaxVersion == 8         \* saves stop at this version
MaxPoints == 1          \* points per engine group

ConfigPath == "flight_1_rois.json"

ZeroRect == [x |-> 0, y |-> 0, w |-> 0, h |-> 0]
\* a rectangle the user typed or drew (wider and higher than 10)
DrawnRect == [x |-> 10, y |-> 10, w |-> 20, h |-> 20]

\* main.py lines 535 and 586: f"ROI_{len(self.config.rois) + 1}"
RoiName(n) == "ROI_" \o ToString(n)

\* models.py lines 76-82: ROIConfig.__init__ before any load
DefaultConfig(path) ==
    [config_path |-> path, version |-> 1, vehicles |-> {"starship"},
     rois |-> <<>>]

\* models.py lines 84-97: ROIConfig(config_path)
ROIConfig(path, file) ==
    IF path # "" /\ file.exists
    THEN [config_path |-> path, version |-> file.version,
          vehicles |-> file.vehicles, rois |-> file.rois]
    ELSE DefaultConfig(path)

\* config_creator.py lines 150-163, the version the CLI writes
CreatedVersion == 6
create_basic_config_structure(rocket) ==
    [exists |-> TRUE, version |-> CreatedVersion, vehicles |-> {rocket},
     rois |-> <<>>]

\* models.py lines 114-118: used_vehicles
used_vehicles(rois) ==
    {rois[i].vehicle : i \in 1..Len(rois)} \ {NoVehicle}

\* models.py lines 121-122: the version save_config stores
SavedVersion(version, file) == IF file.exists THEN version + 1 ELSE version

\* roi_properties_widget.py lines 269-295
apply_changes(r, id, vehicle_text, rect) ==
    LET geometry == IF id = "engines" THEN ZeroRect ELSE rect
    IN  [r EXCEPT !.id = id,
                  !.vehicle = IF vehicle_text = "" THEN NoVehicle
                              ELSE vehicle_text,
                  !.x = geometry.x, !.y = geometry.y,
                  !.w = geometry.w, !.h = geometry.h]

\* models.py line 66
is_rectangle(r) == r.points = EmptyDict

\* the list without its i-th entry
Remove(s, i) == SubSeq(s, 1, i - 1) \o SubSeq(s, i + 1, Len(s))

\* the dict d with d[key] = val
Put(d, key, val) ==
    [k \in DOMAIN d \cup {key} |-> IF k = key THEN val ELSE d[k]]

\* the dict d without key
Del(d, key) == [k \in DOMAIN d \ {key} |-> d[k]]

EditorOpen == config # NoConfig

\* config_creator.py lines 33-36 and 165-180: the CLI writes a new file
CreateConfig(rocket) ==
    /\ disk' = create_basic_config_structure(rocket)
    /\ saved' = FALSE
    /\ UNCHANGED <<config, extractVars, act, cleanVars, utilVars>>

\* main.py lines 28-30 and 626-632: the editor is started, or opens a file
OpenConfig(path) ==
    /\ config' = ROIConfig(path, disk)
    /\ saved' = FALSE
    /\ UNCHANGED <<disk, extractVars, act, cleanVars, utilVars>>

\* main.py lines 583-607: add_roi
AddRoi ==
    /\ EditorOpen
    /\ Len(config.rois) < MaxRois
    /\ config' = [config EXCEPT !.rois =
                     Append(@, MakeRoi(RoiName(Len(@) + 1), NoVehicle,
                                       ZeroRect, "", NoPoints))]
    /\ saved' = FALSE
    /\ UNCHANGED <<disk, extractVars, act, cleanVars, utilVars>>

\* video_widget.py lines 294-313 and main.py lines 532-561: a rectangle is
\* drawn and becomes a new ROI
DrawRoi ==
    /\ EditorOpen
    /\ Len(config.rois) < MaxRois
    /\ config' = [config EXCEPT !.rois =
                     Append(@, MakeRoi(RoiName(Len(@) + 1), NoVehicle,
                                       DrawnRect, "", NoPoints))]
    /\ saved' = FALSE
    /\ UNCHANGED <<disk, extractVars, act, cleanVars, utilVars>>

\* roi_properties_widget.py lines 264-297: apply_changes
ApplyChanges(i, id, vehicle_text, rect) ==
    /\ EditorOpen
    /\ i \in 1..Len(config.rois)
    /\ config' = [config EXCEPT !.rois[i] =
                     apply_changes(@, id, vehicle_text, rect)]
    /\ saved' = FALSE
    /\ UNCHANGED <<disk, extractVars, act, cleanVars, utilVars>>

\* roi_properties_widget.py lines 323-335: add_engine_group
AddEngineGroup(i, group_name) ==
    /\ EditorOpen
    /\ i \in 1..Len(config.rois)
    /\ group_name \notin DOMAIN config.rois[i].points
    /\ config' = [config EXCEPT !.rois[i].points = Put(@, group_name, <<>>)]
    /\ saved' = FALSE
    /\ UNCHANGED <<disk, extractVars, act, cleanVars, utilVars>>

\* roi_properties_widget.py lines 337-347: remove_engine_group
RemoveEngineGroup(i, group_name) ==
    /\ EditorOpen
    /\ i \in 1..Len(config.rois)
    /\ group_name \in DOMAIN config.rois[i].points
    /\ config' = [config EXCEPT !.rois[i].points = Del(@, group_name)]
    /\ saved' = FALSE
    /\ UNCHANGED <<disk, extractVars, act, cleanVars, utilVars>>

\* roi_properties_widget.py lines 349-368: add_point, coordinates typed
AddPoint(i, group_name, pt) ==
    /\ EditorOpen
    /\ i \in 1..Len(config.rois)
    /\ group_name \in DOMAIN config.rois[i].points
    /\ Len(config.rois[i].points[group_name]) < MaxPoints
    /\ config' = [config EXCEPT !.rois[i].points[group_name] = Append(@, pt)]
    /\ saved' = FALSE
    /\ UNCHANGED <<disk, extractVars, act, cleanVars, utilVars>>

\* video_widget.py lines 273-292: a click adds a point to the selected
\* group of the selected engines ROI, creating the group if need be
ClickPoint(i, group_name, pt) ==
    /\ EditorOpen
    /\ i \in 1..Len(config.rois)
    /\ config.rois[i].id = "engines"
    /\ LET had == Get(config.rois[i].points, group_name, <<>>)
       IN  /\ Len(had) < MaxPoints
           /\ config' = [config EXCEPT !.rois[i].points =
                            Put(@, group_name, Append(had, pt))]
    /\ saved' = FALSE
    /\ UNCHANGED <<disk, extractVars, act, cleanVars, utilVars>>

\* roi_properties_widget.py lines 370-382: remove_point
RemovePoint(i, group_name, point_index) ==
    /\ EditorOpen
    /\ i \in 1..Len(config.rois)
    /\ group_name \in DOMAIN config.rois[i].points
    /\ point_index \in 1..Len(config.rois[i].points[group_name])
    /\ config' = [config EXCEPT !.rois[i].points[group_name] =
                     Remove(@, point_index)]
    /\ saved' = FALSE
    /\ UNCHANGED <<disk, extractVars, act, cleanVars, utilVars>>

\* main.py lines 617-624: delete_roi
DeleteRoi(i) ==
    /\ EditorOpen
    /\ i \in 1..Len(config.rois)
    /\ config' = [config EXCEPT !.rois = Remove(@, i)]
    /\ saved' = FALSE
    /\ UNCHANGED <<disk, extractVars, act, cleanVars, utilVars>>

\* main.py lines 722-735 and models.py lines 104-140: save_config. picked is
\* what the file dialog returned when the object has no path; written is
\* whether open() and json.dump succeeded
SaveConfig(picked, written) ==
    /\ EditorOpen
    /\ config.version < MaxVersion
    /\ LET path == IF config.config_path = "" THEN picked
                   ELSE config.config_path
           version == SavedVersion(config.version, disk)
           vs == used_vehicles(config.rois)
       IN  /\ path # ""
           /\ config' = [config EXCEPT !.config_path = path,
                                       !.vehicles = vs,
                                       !.version = version]
           /\ IF written
              THEN disk' = [exists |-> TRUE, version |-> version,
                            vehicles |-> vs, rois |-> config.rois]
              ELSE UNCHANGED disk
           /\ saved' = written
    /\ UNCHANGED <<extractVars, act, cleanVars, utilVars>>

--------------------------------------------------------------------------
(* SpecConfig: a configuration is created, opened, edited and saved       *)

\* what the vehicle box of the properties widget can hold
VehicleTexts == {""} \cup VehicleNames

InitConfig == ExtractIdle /\ ActiveIdle /\ CleanIdle /\ ConfigIdle /\ UtilIdle

NextConfig ==
    \/ \E rocket \in VehicleNames : CreateConfig(rocket)
    \/ \E path \in {"", ConfigPath} : OpenConfig(path)
    \/ AddRoi
    \/ \E i \in 1..MaxRois, v \in VehicleTexts :
          ApplyChanges(i, "speed", v, DrawnRect)
    \/ \E i \in 1..MaxRois : DeleteRoi(i)
    \/ \E picked \in {"", ConfigPath}, written \in BOOLEAN :
          SaveConfig(picked, written)

SpecConfig == InitConfig /\ [][NextConfig]_vars

\* C18: every persisted ROI configuration, written by configuration
\* creation or by save_config after any sequence of ROI add, edit and
\* delete operations, has vehicles equal to exactly the set of non-null
\* vehicle values across its rois.
C18_PersistedVehicles ==
    disk.exists =>
        disk.vehicles =
           {v \in VehicleNames :
               \E i \in 1..Len(disk.rois) : disk.rois[i].vehicle = v}

\* C19: the version is incremented on every save: each save_config call
\* that writes the file stores a version one greater than the version
\* before that call, and over any sequence of loads and saves the version
\* of the file never decreases.
C19_VersionIncrementedOnSave ==
    [][ /\ saved' => disk'.version = config.version + 1
        /\ (disk.exists /\ saved') => disk'.version >= disk.version ]_vars

--------------------------------------------------------------------------
(* SpecGeometry: the geometry of the ROIs under the editor's handlers     *)

InitGeometry ==
    /\ ExtractIdle
    /\ ActiveIdle
    /\ CleanIdle
    /\ UtilIdle
    /\ config = DefaultConfig("")
    /\ disk = NoFile
    /\ saved = FALSE

NextGeometry ==
    \/ AddRoi
    \/ DrawRoi
    \/ \E i \in 1..MaxRois, id \in {"speed", "engines"},
          rect \in {ZeroRect, DrawnRect} : ApplyChanges(i, id, "", rect)
    \/ \E i \in 1..MaxRois : AddEngineGroup(i, "rvac")
    \/ \E i \in 1..MaxRois : RemoveEngineGroup(i, "rvac")
    \/ \E i \in 1..MaxRois : AddPoint(i, "rvac", <<1, 1>>)
    \/ \E i \in 1..MaxRois : ClickPoint(i, "rvac", <<1, 1>>)
    \/ \E i \in 1..MaxRois : RemovePoint(i, "rvac", 1)
    \/ \E i \in 1..MaxRois : DeleteRoi(i)

SpecGeometry == InitGeometry /\ [][NextGeometry]_vars

\* C20: after any sequence of configuration-editing operations
\* (apply_changes, also with the id changed between engines and other ids,
\* adding engine groups, adding points, drawing rectangles) every ROI is
\* either a rectangle with empty points or a point-group geometry whose
\* rectangle fields are all zero, never both.
C20_GeometryModesExclusive ==
    \A i \in 1..Len(config.rois) :
        LET r == config.rois[i]
        IN  \/ r.points = EmptyDict
            \/ (r.x = 0 /\ r.y = 0 /\ r.w = 0 /\ r.h = 0)

--------------------------------------------------------------------------
(* SpecLoad: ROIConfig.load_config reads a configuration file             *)

\* the time_unit strings a file may carry; the last is not a recognised one
FileTimeUnits == {"frames", "seconds", "minutes"}

\* the ROI lists a file may carry: every ROI with any owner, or none
FileRois ==
    UNION {[1..n -> {MakeRoi("speed", v, DrawnRect, "km/h", NoPoints) :
                        v \in VehicleNames \cup {NoVehicle}}] :
             n \in 0..MaxRois}

\* the files load_config may be given; parses is whether open() and
\* json.load succeed
ConfigFiles ==
    {[exists |-> TRUE, parses |-> p, version |-> 1, time_unit |-> u,
      vehicles |-> vs, rois |-> rois] :
        p \in BOOLEAN, u \in FileTimeUnits, vs \in SUBSET VehicleNames,
        rois \in FileRois}

\* models.py lines 76-82 with the time_unit field: the object before a load
NewROIConfig(path) ==
    [config_path |-> path, version |-> 1, time_unit |-> "frames",
     vehicles |-> {"starship"}, rois |-> <<>>]

\* models.py lines 87-102: every field is taken from the file as it is;
\* an exception of open() or json.load is caught and the object keeps
\* what it held
load_config(self, data) ==
    IF data.parses
    THEN [self EXCEPT !.version = data.version,
                      !.time_unit = data.time_unit,
                      !.vehicles = data.vehicles,
                      !.rois = data.rois]
    ELSE self

\* models.py lines 84-85: ROIConfig(config_path) on an existing file
LoadConfig ==
    /\ config = NoConfig
    /\ disk.exists
    /\ config' = load_config(NewROIConfig(ConfigPath), disk)
    /\ UNCHANGED <<disk, saved, extractVars, act, cleanVars, utilVars>>

InitLoad ==
    /\ ExtractIdle
    /\ ActiveIdle
    /\ CleanIdle
    /\ UtilIdle
    /\ config = NoConfig
    /\ disk \in ConfigFiles
    /\ saved = FALSE

NextLoad == LoadConfig

SpecLoad == InitLoad /\ [][NextLoad]_vars

\* the time_unit of c is recognised and every ROI of c has no owner or a
\* declared one
Consistent(c) ==
    /\ c.time_unit \in {"frames", "seconds"}
    /\ \A i \in 1..Len(c.rois) :
          c.rois[i].vehicle = NoVehicle \/ c.rois[i].vehicle \in c.vehicles

\* C21: loading an ROI configuration fails, and loads nothing, when
\* time_unit is not one of frames or seconds, or when some ROI's vehicle
\* is non-null and not in the declared vehicles list: every configuration
\* object that holds the content of a file is consistent, and an
\* inconsistent file leaves the object at its defaults.
C21_InconsistentConfigRejected ==
    config # NoConfig =>
        /\ Consistent(config)
        /\ ~Consistent(disk) => config = NewROIConfig(ConfigPath)

--------------------------------------------------------------------------
(* SpecConvert: convert_measurement applied to bounded inputs             *)

MaxQuarters == 6        \* the values run from 0 to MaxQuarters / 4

\* a quarter of a unit, in ticks
Quarter == ConvScale \div 4

\* the values converted: the multiples of 0.25, and 100
ConvertValues == {k * Quarter : k \in 0..MaxQuarters} \cup {100 * ConvScale}

\* the measurement types and unit strings a caller may pass
MeasurementTypes == {"speed", "altitude", "fuel"}
UnitStrings == {"km/h", "mph", "m/s", "km", "mi", "ft", "m", "MPH", ""}

\* measurement_converter.py lines 46-63: one call; a ValueError leaves the
\* function instead of a value
ConvertMeasurement ==
    /\ conv.pc = "called"
    /\ LET r == convert_measurement(conv.value, conv.measurement_type,
                                    conv.from_unit)
       IN  conv' = IF r = Unsupported
                   THEN [conv EXCEPT !.pc = "raised", !.exc = "ValueError"]
                   ELSE [conv EXCEPT !.pc = "returned", !.result = r]
    /\ UNCHANGED <<dl, recordings, downloaded, configs, flight_data, menu,
                   extractVars, act, cleanVars, configVars>>

InitConvert ==
    /\ ExtractIdle
    /\ ActiveIdle
    /\ CleanIdle
    /\ ConfigIdle
    /\ conv \in {[pc |-> "called", value |-> v, measurement_type |-> t,
                  from_unit |-> u, result |-> NULL, exc |-> "none"] :
                    v \in ConvertValues, t \in MeasurementTypes,
                    u \in UnitStrings}
    /\ dl = NoCall
    /\ recordings = NoDir
    /\ downloaded = NoCall
    /\ configs = NoDir
    /\ flight_data = NoCall
    /\ menu = NoCall

NextConvert == ConvertMeasurement

SpecConvert == InitConvert /\ [][NextConvert]_vars

\* value times a factor of 7 decimals, for a value that is a multiple of
\* 0.25 (both factors are multiples of 4 ticks)
Times(v, factor) == (v \div Quarter) * (factor \div 4)

\* C22: the converter returns the value unchanged for speed unit km/h and
\* altitude unit km, multiplies by 1.60934 for mph and mi and by 0.0003048
\* for ft, and fails with an unsupported-unit error for every other unit
\* string and for every measurement type other than speed and altitude.
C22_ConverterTable ==
    conv.pc \in {"returned", "raised"} =>
        LET t == conv.measurement_type
            u == conv.from_unit
            v == conv.value
        IN  IF (t = "speed" /\ u = "km/h") \/ (t = "altitude" /\ u = "km")
            THEN conv.pc = "returned" /\ conv.result = v
            ELSE IF (t = "speed" /\ u = "mph") \/ (t = "altitude" /\ u = "mi")
            THEN conv.pc = "returned" /\ conv.result = Times(v, 16093400)
            ELSE IF t = "altitude" /\ u = "ft"
            THEN conv.pc = "returned" /\ conv.result = Times(v, 3048)
            ELSE conv.pc = "raised" /\ conv.exc = "ValueError"

\* 100 mph was converted and gave 160.934 km/h
C22_Witness ==
    /\ conv.pc = "returned"
    /\ conv.measurement_type = "speed"
    /\ conv.from_unit = "mph"
    /\ conv.value = 100 * ConvScale
    /\ conv.result = 1609340000

--------------------------------------------------------------------------
(* download/downloader.py: download_twitter_broadcast and                 *)
(* download_youtube_video, which differ in their log texts only           *)

\* A file name is a sequence of tokens: "flight" for these six letters,
\* "_" and "." for the two separators, a digit, "mp4" or "a" for any other
\* run of letters.

\* a flight identifier f"{flight_identifier}" as tokens: the string
\* "flight_N" the tests pass, or str(N) for an integer N
IdentifierTexts ==
    {<<"flight", "_", "1">>, <<"flight", "_", "2">>, <<"1">>}

\* lines 25-28 and 74-77
output_path(company, vehicle) ==
    IF Truthy(company) /\ Truthy(vehicle)
    THEN <<"flight_recordings", company, vehicle>>
    ELSE <<"flight_recordings">>

\* lines 34 and 83: the file yt-dlp writes for "{flight_identifier}.%(ext)s"
OutputFile(flight_identifier) == flight_identifier \o <<".", "mp4">>

\* what os.makedirs and subprocess.run may raise ("none": they return)
MakedirsOutcomes == {"none", "PermissionError"}
RunOutcomes == {"none", "CalledProcessError", "FileNotFoundError"}

Caught_OnlyCalledProcessError(e) == e = "CalledProcessError"

\* lines 50-57 and 99-106: except CalledProcessError, except Exception
Caught(e) == e \in {"CalledProcessError", "FileNotFoundError",
                    "PermissionError"}

\* the dir d with the file in it
WithFile(d, file) ==
    [exists |-> TRUE,
     files |-> IF \E i \in 1..Len(d.files) : d.files[i] = file
               THEN d.files ELSE Append(d.files, file)]

\* lines 23-28: the call is entered, the output path is chosen
NewDownload(fn, flight_identifier, company, vehicle) ==
    [pc |-> "makedirs", fn |-> fn, flight_identifier |-> flight_identifier,
     output_path |-> output_path(company, vehicle), makedirs |-> "none",
     run |-> "none", result |-> "none"]

\* the handler of an exception e: the function returns False if a clause
\* catches it, else it leaves the function
Handled(d, e) ==
    IF Caught(e) THEN [d EXCEPT !.pc = "returned", !.result = "False"]
    ELSE [d EXCEPT !.pc = "raised"]

DownloadCall(fn, flight_identifier, company, vehicle) ==
    /\ dl.pc \in {"idle", "returned"}
    /\ dl' = NewDownload(fn, flight_identifier, company, vehicle)
    /\ UNCHANGED <<conv, recordings, downloaded, configs, flight_data, menu,
                   extractVars, act, cleanVars, configVars>>

\* lines 31 and 80: os.makedirs(output_path, exist_ok=True)
MakeDirs(e) ==
    /\ dl.pc = "makedirs"
    /\ IF e = "none"
       THEN /\ dl' = [dl EXCEPT !.pc = "run", !.makedirs = "ok"]
            /\ recordings' = [recordings EXCEPT !.exists = TRUE]
       ELSE /\ dl' = Handled([dl EXCEPT !.makedirs = e], e)
            /\ UNCHANGED recordings
    /\ UNCHANGED <<conv, downloaded, configs, flight_data, menu,
                   extractVars, act, cleanVars, configVars>>

\* lines 40-49 and 89-98: subprocess.run(["yt-dlp", ...], check=True) and
\* return True
RunYtDlp(e) ==
    /\ dl.pc = "run"
    /\ IF e = "none"
       THEN /\ dl' = [dl EXCEPT !.pc = "returned", !.run = "ok",
                                !.result = "True"]
            /\ recordings' =
                  IF dl.output_path = <<"flight_recordings">>
                  THEN WithFile(recordings, OutputFile(dl.flight_identifier))
                  ELSE recordings
       ELSE /\ dl' = Handled([dl EXCEPT !.run = e], e)
            /\ UNCHANGED recordings
    /\ UNCHANGED <<conv, downloaded, configs, flight_data, menu,
                   extractVars, act, cleanVars, configVars>>

--------------------------------------------------------------------------
(* SpecDownload: calls of the two download functions, one after another   *)

InitDownload ==
    /\ ExtractIdle
    /\ ActiveIdle
    /\ CleanIdle
    /\ ConfigIdle
    /\ conv = NoCall
    /\ dl = NoCall
    /\ recordings \in {NoDir, [exists |-> TRUE, files |-> <<>>]}
    /\ downloaded = NoCall
    /\ configs = NoDir
    /\ flight_data = NoCall
    /\ menu = NoCall

NextDownload ==
    \/ \E fn \in {"twitter", "youtube"}, id \in IdentifierTexts,
          company \in {NoVehicle, "spacex"},
          vehicle \in {NoVehicle, "starship"} :
             DownloadCall(fn, id, company, vehicle)
    \/ \E e \in MakedirsOutcomes : MakeDirs(e)
    \/ \E e \in RunOutcomes : RunYtDlp(e)

SpecDownload == InitDownload /\ [][NextDownload]_vars

\* C23: download_twitter_broadcast and download_youtube_video never raise:
\* they return True when directory creation and the yt-dlp run both
\* succeed, and False when yt-dlp exits with an error or when any other
\* exception occurs; when directory creation fails yt-dlp is never started.
C23_DownloadReturnsBoolean ==
    dl.pc # "idle" =>
        /\ dl.pc # "raised"
        /\ dl.pc = "returned" =>
              /\ dl.result \in {"True", "False"}
              /\ dl.result = "True" <=> (dl.makedirs = "ok" /\ dl.run = "ok")
        /\ dl.makedirs = "PermissionError" => dl.run = "none"

\* directory creation failed and the function returned False
C23_Witness ==
    /\ dl.pc = "returned"
    /\ dl.makedirs = "PermissionError"
    /\ dl.run = "none"
    /\ dl.result = "False"

--------------------------------------------------------------------------
(* download/utils.py: get_downloaded_launches                             *)

MaxNameLen == 5         \* tokens of the longest file name listed alone

DigitValue ==
    ("0" :> 0) @@ ("1" :> 1) @@ ("2" :> 2) @@ ("3" :> 3) @@ ("4" :> 4)
    @@ ("5" :> 5) @@ ("6" :> 6) @@ ("7" :> 7) @@ ("8" :> 8) @@ ("9" :> 9)
Digits == DOMAIN DigitValue

\* the index of the first sep in s, Len(s) + 1 if there is none
Find(s, sep) ==
    IF \E i \in 1..Len(s) : s[i] = sep
    THEN CHOOSE i \in 1..Len(s) :
            s[i] = sep /\ \A j \in 1..(i - 1) : s[j] # sep
    ELSE Len(s) + 1

\* s.split(sep)[0] and, where s holds a sep, s.split(sep, 1)[1]
Before(s, sep) == SubSeq(s, 1, Find(s, sep) - 1)
After(s, sep) == SubSeq(s, Find(s, sep) + 1, Len(s))

RECURSIVE DigitsValue(_)
\* the number a sequence of digits and underscores denotes
DigitsValue(s) ==
    IF s = <<>> THEN 0
    ELSE LET rest == DigitsValue(SubSeq(s, 1, Len(s) - 1))
             last == s[Len(s)]
         IN  IF last = "_" THEN rest ELSE 10 * rest + DigitValue[last]

\* Python's int(text) for a text of these tokens: digits, with single
\* underscores between them allowed; NULL for a ValueError
int(text) ==
    IF /\ text # <<>>
       /\ \A i \in 1..Len(text) : text[i] \in Digits \cup {"_"}
       /\ text[1] # "_"
       /\ text[Len(text)] # "_"
       /\ \A i \in 1..(Len(text) - 1) : ~(text[i] = "_" /\ text[i + 1] = "_")
    THEN DigitsValue(text)
    ELSE NULL

\* line 99: file.startswith("flight_")
startswith_flight(file) ==
    Len(file) >= 2 /\ file[1] = "flight" /\ file[2] = "_"

FlightNumberText_UpToDot(file) == Before(After(file, "_"), ".")

\* line 102: file.split("_")[1].split(".")[0]
FlightNumberText(file) == Before(Before(After(file, "_"), "_"), ".")

RECURSIVE ListedFlights(_)
\* lines 98-105: the loop over the listing
ListedFlights(files) ==
    IF files = <<>> THEN <<>>
    ELSE LET file == files[Len(files)]
             before == ListedFlights(SubSeq(files, 1, Len(files) - 1))
         IN  IF startswith_flight(file) /\ int(FlightNumberText(file)) # NULL
             THEN Append(before, int(FlightNumberText(file)))
             ELSE before

\* lines 82-108
get_downloaded_launches(dir) ==
    IF ~dir.exists THEN <<>> ELSE ListedFlights(dir.files)

\* one call: listdir counts the os.listdir calls
GetDownloadedLaunches ==
    /\ downloaded.pc = "idle"
    /\ downloaded' = [pc |-> "returned",
                      listdir |-> IF recordings.exists THEN 1 ELSE 0,
                      result |-> get_downloaded_launches(recordings)]
    /\ UNCHANGED <<conv, dl, recordings, configs, flight_data, menu,
                   extractVars, act, cleanVars, configVars>>

--------------------------------------------------------------------------
(* SpecListing: get_downloaded_launches applied to bounded listings       *)

NameTokens == {"flight", "_", ".", "1", "2", "a"}

\* every file name of up to MaxNameLen tokens
FileNames == UNION {[1..n -> NameTokens] : n \in 1..MaxNameLen}

\* the names listed in pairs
PairedNames ==
    {<<"flight", "_", "1", ".", "a">>, <<"flight", "_", "2">>,
     <<"flight", "_", "1", "2", ".", "a", ".", "a">>, <<"flight", "_", "a">>,
     <<"a", "_", "1", ".", "a">>, <<"flight", "_", "2", "_", "a", ".", "a">>}

Listings ==
    {<<>>} \cup {<<f>> : f \in FileNames}
    \cup {<<f, g>> : f \in PairedNames, g \in PairedNames}

InitListing ==
    /\ ExtractIdle
    /\ ActiveIdle
    /\ CleanIdle
    /\ ConfigIdle
    /\ conv = NoCall
    /\ dl = NoCall
    /\ recordings \in {NoDir}
                      \cup {[exists |-> TRUE, files |-> l] : l \in Listings}
    /\ downloaded = NoCall
    /\ configs = NoDir
    /\ flight_data = NoCall
    /\ menu = NoCall

NextListing == GetDownloadedLaunches

SpecListing == InitListing /\ [][NextListing]_vars

\* the text of a name from behind its first "_" to the next token of stops
\* or the end of the name
TextUpTo(name, stops) ==
    LET first == Find(name, "_")
        ends == {j \in (first + 1)..Len(name) : name[j] \in stops}
        end == IF ends = {} THEN Len(name) + 1
               ELSE CHOOSE j \in ends : \A k \in ends : j <= k
    IN  SubSeq(name, first + 1, end - 1)

\* the numbers of the names that start with flight_ and whose text up to a
\* token of stops parses as an integer, in the order of the listing
NumbersOf(files, stops) ==
    LET Counted(name) ==
            startswith_flight(name) /\ int(TextUpTo(name, stops)) # NULL
        counted == SelectSeq(files, Counted)
    IN  [i \in 1..Len(counted) |-> int(TextUpTo(counted[i], stops))]

\* C24 as stated: the empty list without listing the directory when the
\* output path does not exist; otherwise, in listing order, the integer for
\* every file name that starts with flight_ and whose text between the
\* first "_" and the next "." parses as an integer, every other name
\* skipped.
C24_TextUpToNextDot ==
    downloaded.pc = "returned" =>
        IF recordings.exists
        THEN downloaded.result = NumbersOf(recordings.files, {"."})
        ELSE downloaded.result = <<>> /\ downloaded.listdir = 0

\* C24 amended: as above, with the text between the first "_" and the next
\* "_" or ".".
C24_TextUpToNextSeparator ==
    downloaded.pc = "returned" =>
        IF recordings.exists
        THEN /\ downloaded.result = NumbersOf(recordings.files, {"_", "."})
             /\ downloaded.listdir = 1
        ELSE downloaded.result = <<>> /\ downloaded.listdir = 0

\* two names were listed, the second with a second "_" behind its number,
\* and both numbers were returned in the order of the listing
C24_Witness ==
    /\ downloaded.pc = "returned"
    /\ recordings.exists
    /\ recordings.files = <<<<"flight", "_", "1", ".", "a">>,
                            <<"flight", "_", "2", "_", "a", ".", "a">>>>
    /\ downloaded.result = <<1, 2>>

--------------------------------------------------------------------------
(* download/utils.py: get_launch_data                                     *)

MaxConfigFiles == 2     \* files under configs/

\* what a file under configs/ may hold: text that is no JSON, a file that
\* cannot be read, the JSON array [], the object {"version": 3}, and an
\* object with a video_source object
FileContents ==
    {"invalid_json", "unreadable", "array", "no_video_source",
     "video_source"}

\* lines 32-36: what open, json.load and config_data.get raise for a content
RaisedBy(content) ==
    CASE content = "invalid_json" -> "JSONDecodeError"
      [] content = "unreadable" -> "IOError"
      [] content = "array" -> "AttributeError"
      [] OTHER -> "none"

\* line 68: except (json.JSONDecodeError, KeyError, IOError)
CaughtPerFile(e) == e \in {"JSONDecodeError", "KeyError", "IOError"}

\* the video_source of the files that have one
VideoSource == [type |-> "youtube", url |-> "https://youtu.be/x"]

RECURSIVE ScanConfigs(_)
\* lines 27-70: the walk over the files; dirs is the path of the file's
\* directory below configs/, name the file name before "_rois.json", rois
\* whether the name ends with "_rois.json". The nested dict
\* data[company][vehicle][flight_key] is a function of the three keys.
ScanConfigs(files) ==
    IF files = <<>> THEN [aborted |-> FALSE, data |-> EmptyDict]
    ELSE LET before == ScanConfigs(SubSeq(files, 1, Len(files) - 1))
             file == files[Len(files)]
             e == RaisedBy(file.content)
         IN  IF before.aborted \/ ~file.rois THEN before
             ELSE IF e # "none"
             THEN IF CaughtPerFile(e) THEN before
                  ELSE [before EXCEPT !.aborted = TRUE]
             ELSE IF file.content = "no_video_source" THEN before
             ELSE IF Len(file.dirs) # 2 THEN before
             ELSE [before EXCEPT !.data =
                      Put(@, <<file.dirs[1], file.dirs[2], file.name>>,
                          [type |-> VideoSource.type,
                           url |-> VideoSource.url])]

\* lines 11-80: None (none = TRUE) or the dict
get_launch_data(dir) ==
    IF ~dir.exists THEN [none |-> TRUE, data |-> EmptyDict]
    ELSE LET scan == ScanConfigs(dir.files)
         IN  IF scan.aborted THEN [none |-> TRUE, data |-> EmptyDict]
             ELSE [none |-> FALSE, data |-> scan.data]

\* one call
GetLaunchData ==
    /\ flight_data.pc = "idle"
    /\ LET r == get_launch_data(configs)
       IN  flight_data' = [pc |-> "returned", none |-> r.none,
                           data |-> r.data]
    /\ UNCHANGED <<conv, dl, recordings, downloaded, configs, menu,
                   extractVars, act, cleanVars, configVars>>

--------------------------------------------------------------------------
(* SpecLaunch: get_launch_data applied to bounded configs directories     *)

ConfigDirFiles ==
    {[dirs |-> d, name |-> n, rois |-> r, content |-> c] :
        d \in {<<"spacex", "starship">>, <<"spacex">>},
        n \in {"flight_1", "flight_2"}, r \in BOOLEAN, c \in FileContents}

\* the walks of up to MaxConfigFiles files, no path twice
ConfigWalks ==
    {w \in UNION {[1..n -> ConfigDirFiles] : n \in 0..MaxConfigFiles} :
        \A i, j \in 1..Len(w) :
            (i # j) => <<w[i].dirs, w[i].name, w[i].rois>>
                         # <<w[j].dirs, w[j].name, w[j].rois>>}

InitLaunch ==
    /\ ExtractIdle
    /\ ActiveIdle
    /\ CleanIdle
    /\ ConfigIdle
    /\ conv = NoCall
    /\ dl = NoCall
    /\ recordings = NoDir
    /\ downloaded = NoCall
    /\ configs \in {NoDir}
                   \cup {[exists |-> TRUE, files |-> w] : w \in ConfigWalks}
    /\ flight_data = NoCall
    /\ menu = NoCall

NextLaunch == GetLaunchData

SpecLaunch == InitLaunch /\ [][NextLaunch]_vars

\* the files of a walk that the scan is to record: named *_rois.json, two
\* directories below configs/, valid JSON with a video_source
Remaining(files) ==
    {i \in 1..Len(files) :
        /\ files[i].rois
        /\ Len(files[i].dirs) = 2
        /\ files[i].content = "video_source"}

\* C25: get_launch_data returns None when the configs directory does not
\* exist; otherwise a config file that is not valid JSON or has no
\* video_source is skipped without aborting the scan, so the result holds
\* the type and url of exactly the remaining *_rois.json files located at
\* configs/<company>/<vehicle>/.
C25_BadFilesSkipped ==
    flight_data.pc = "returned" =>
        IF ~configs.exists THEN flight_data.none
        ELSE /\ ~flight_data.none
             /\ DOMAIN flight_data.data =
                   {<<configs.files[i].dirs[1], configs.files[i].dirs[2],
                      configs.files[i].name>> :
                        i \in Remaining(configs.files)}
             /\ \A k \in DOMAIN flight_data.data :
                   flight_data.data[k] = VideoSource

--------------------------------------------------------------------------
(* download/menu.py: the launch-list menu                                 *)

\* str(n) for n >= 0, as digit tokens
DigitToken(d) == CHOOSE t \in Digits : DigitValue[t] = d
RECURSIVE str(_)
str(n) ==
    IF n < 10 THEN <<DigitToken(n)>>
    ELSE Append(str(n \div 10), DigitToken(n % 10))

\* lines 86-101: flatten_flight_data; the unique key
\* f"{company}_{vehicle}_{flight_key}" is the triple of its three parts
flatten_flight_data(data) ==
    [k \in DOMAIN data |->
        [company |-> k[1], vehicle |-> k[2], flight_key |-> k[3],
         type |-> data[k].type, url |-> data[k].url]]

\* lines 126 and 206: int(flight_key.split("_")[1]), NULL for an
\* IndexError or ValueError
FlightNum(flight_key) ==
    IF \A i \in 1..Len(flight_key) : flight_key[i] # "_" THEN NULL
    ELSE int(Before(After(flight_key, "_"), "_"))

\* lines 118-137: the unique keys of the flights offered; the sort of line
\* 136 orders them and drops none
get_available_flights_for_vehicle(flat, company, vehicle, dir) ==
    LET downloaded_flights == get_downloaded_launches(dir)
    IN  {k \in DOMAIN flat :
            /\ flat[k].company = company
            /\ flat[k].vehicle = vehicle
            /\ FlightNum(flat[k].flight_key) # NULL
            /\ \A i \in 1..Len(downloaded_flights) :
                  downloaded_flights[i] # FlightNum(flat[k].flight_key)}

\* lines 288-294: the function execute_download calls, "none" if it
\* returns False at once
execute_download(media_type) ==
    IF media_type = "youtube" THEN "youtube"
    ELSE IF media_type \in {"twitter/x", "twitter", "x"} THEN "twitter"
    ELSE "none"

\* lines 183-194: select_flight, one of the offered flights is chosen
SelectFlight(key) ==
    /\ menu.pc = "menu"
    /\ LET flat == flatten_flight_data(flight_data.data)
       IN  /\ key \in DOMAIN flat
           /\ key \in get_available_flights_for_vehicle(
                         flat, flat[key].company, flat[key].vehicle,
                         recordings)
    /\ menu' = [menu EXCEPT !.pc = "selected", !.selected = key]
    /\ UNCHANGED <<conv, dl, recordings, downloaded, configs, flight_data,
                   extractVars, act, cleanVars, configVars>>

\* lines 196-209 and 288-294: download_selected_flight up to the call of
\* the download function, which is given the flight number as identifier
\* and neither company nor vehicle
DownloadSelectedFlight ==
    /\ menu.pc = "selected"
    /\ LET flight_info == flatten_flight_data(flight_data.data)[menu.selected]
           flight_num == FlightNum(flight_info.flight_key)
           fn == execute_download(flight_info.type)
       IN  IF fn = "none"
           THEN /\ menu' = [menu EXCEPT !.pc = "menu"]
                /\ UNCHANGED dl
           ELSE /\ menu' = [menu EXCEPT !.pc = "downloading"]
                /\ dl' = NewDownload(fn, str(flight_num), NoVehicle,
                                     NoVehicle)
    /\ UNCHANGED <<conv, recordings, downloaded, configs, flight_data,
                   extractVars, act, cleanVars, configVars>>

\* lines 75-77 and 218-227: the download returned, the menu goes on; done
\* is the history of the flights whose download returned True
PromptContinueAfterDownload ==
    /\ menu.pc = "downloading"
    /\ dl.pc = "returned"
    /\ menu' = [menu EXCEPT !.pc = "menu",
                            !.done = IF dl.result = "True"
                                     THEN @ \cup {menu.selected} ELSE @]
    /\ UNCHANGED <<conv, dl, recordings, downloaded, configs, flight_data,
                   extractVars, act, cleanVars, configVars>>

--------------------------------------------------------------------------
(* SpecMenu: flights are selected and downloaded through the menu         *)

\* the config files the flight data came from
LaunchEntries ==
    {<<"spacex", "starship", <<"flight", "_", "1">>>>,
     <<"spacex", "starship", <<"flight", "_", "1", "2">>>>,
     <<"spacex", "falcon9", <<"flight", "_", "2">>>>,
     <<"spacex", "starship", <<"flight", "_", "a">>>>}

MediaTypes == {"youtube", "twitter/x", "vimeo"}

LaunchData ==
    UNION {[ks -> {[type |-> t, url |-> "u"] : t \in MediaTypes}] :
             ks \in SUBSET LaunchEntries}

InitMenu ==
    /\ ExtractIdle
    /\ ActiveIdle
    /\ CleanIdle
    /\ ConfigIdle
    /\ conv = NoCall
    /\ dl = NoCall
    /\ recordings \in {NoDir,
                       [exists |-> TRUE,
                        files |-> <<<<"flight", "_", "2", ".", "mp4">>>>]}
    /\ downloaded = NoCall
    /\ configs = NoDir
    /\ flight_data \in {[pc |-> "returned", none |-> FALSE, data |-> d] :
                           d \in LaunchData}
    /\ menu = [pc |-> "menu", selected |-> <<>>, done |-> {}]

NextMenu ==
    \/ \E key \in LaunchEntries : SelectFlight(key)
    \/ DownloadSelectedFlight
    \/ \E e \in MakedirsOutcomes : MakeDirs(e)
    \/ \E e \in RunOutcomes : RunYtDlp(e)
    \/ PromptContinueAfterDownload

SpecMenu == InitMenu /\ [][NextMenu]_vars

\* C29: after a flight is downloaded successfully through the launch-list
\* menu, get_available_flights_for_vehicle no longer offers that flight:
\* the file written by download_selected_flight is recognised by
\* get_downloaded_launches as that flight number.
C29_DownloadedFlightNotOffered ==
    menu.pc # "idle" =>
        \A key \in menu.done :
            LET flat == flatten_flight_data(flight_data.data)
            IN  /\ key \notin get_available_flights_for_vehicle(
                                 flat, key[1], key[2], recordings)
                /\ \E i \in 1..Len(get_downloaded_launches(recordings)) :
                      get_downloaded_launches(recordings)[i]
                         = FlightNum(key[3])

==========================================================================
